---- MODULE Spec2Model ----
(***************************************************************************)
(* A model of the DeepResearchAgent orchestration layer.  Each component   *)
(* owns a group of variables and a specification of its own:               *)
(*   SpecTimer  ResearchTimerMiddleware            (middleware/timer.py)   *)
(*   SpecChat, SpecChatConcurrent, SpecChatFaulty                          *)
(*              ChatStreamManager               (graph/checkpoint.py)      *)
(*   SpecLlm, SpecLlmConcurrent  LLM provider factory    (llms/llm.py)     *)
(*   SpecFlow, SpecFlowFair  research workflow          (graph/nodes.py)   *)
(*   SpecFs     filesystem tools              (deep_agents_1/tools.py)     *)
(*   SpecSumm, SpecBeforeModel, SpecRebalance                              *)
(*              AdaptiveSummarizationMiddleware (middleware/summarization.py)*)
(*   SpecPatch  PatchToolCallsMiddleware              (specification 4.10) *)
(*   SpecBudget compute_summary_budget        (middleware/summarization.py)*)
(*   SpecLongTerm  filesystem tools, long-term mode    (specification 4.7) *)
(*   SpecTask   task delegation tool          (deep_agents/middleware.py)   *)
(* A specification leaves the variables of the other components fixed.     *)
(***************************************************************************)
EXTENDS Integers, Sequences, FiniteSets, TLC

VARIABLES
    \* ResearchTimerMiddleware (timer.py)
    total_seconds,          \* self.total_seconds
    warning_ratio,          \* self.warning_ratio, in percent
    warning_offset_seconds, \* self.warning_offset_seconds
    start_time,             \* self._start_time: None or <<t>>
    warning_sent,           \* self._warning_sent
    final_sent,             \* self._final_sent
    clock,                  \* last value read from time.monotonic()
    timer_state,            \* state["messages"] handed to the last before_model call
    timer_update,           \* value returned by the last before_model call
    timer_calls,            \* number of before_model calls so far
    timer_pre,              \* flags and elapsed time observed by the last call
    warnings_emitted,       \* returned updates that appended the warning
    finals_emitted,         \* returned updates that appended the final message
    \* ChatStreamManager (checkpoint.py)
    checkpoint_saver,       \* self.checkpoint_saver
    saver_env,              \* what get_bool_env("LANGGRAPH_CHECKPOINT_SAVER") returns now
    backend,                \* "mongo" (self.mongo_db), "postgres" (self.postgres_conn) or "none"
    store,                  \* self.store: thread_id -> the namespace's items, in insertion order
    db,                     \* the chat_streams collection / table: the committed records
    postgres_conn,          \* self.postgres_conn: the rows its open transaction sees, and
                            \* whether a statement has failed in it
    db_clock,               \* the last value datetime.now() returned, as a logical clock
    call,                   \* per caller: the process_stream_message call in flight
    chat_calls,             \* number of calls started so far
    accepted,               \* thread_id -> chunk contents of the accepted calls, in call order
    last_call,              \* the call that returned last, with its result
    overlapped,             \* thread_ids for which two terminal calls ran at the same time
    \* LLM provider factory (llm.py)
    llm_cache,              \* _llm_cache: llm_type -> None or the cached instance
    llm_instances,          \* number of client instances constructed so far
    llm_call,               \* per caller: the get_llm_by_type call in flight
    llm_calls,              \* number of calls started so far
    llm_built,              \* llm_type -> number of instances constructed for it
    llm_returned,           \* llm_type -> the instances returned by its calls, in return order
    llm_raised,             \* number of calls that raised
    \* Research workflow (nodes.py)
    node,                   \* the node the graph runs next
    current_plan,           \* state["current_plan"]: None or a Plan
    plan_iterations,        \* state["plan_iterations"]
    max_plan_iterations,    \* configurable.max_plan_iterations
    auto_accepted_plan,     \* state["auto_accepted_plan"]
    enable_background_investigation,
    background_investigation_results,
    step_attempts,          \* state["step_attempts"]: step title -> attempts (0: no entry)
    observations,           \* state["observations"]
    researcher_reports,     \* state["researcher_reports"]
    final_report,           \* state["final_report"]: None while the state has no such key
    locale,                 \* state["locale"]
    research_topic,         \* state["research_topic"]
    agent_runs,             \* per step title, the runs of the agent for that step of the
                            \* plan in current_plan that left it without a result
    flow_last,              \* the node that ran last, the step it selected, whether it
                            \* invoked its agent, whether it suspended for feedback,
                            \* the feedback it resumed with, the message it recorded,
                            \* the part of the agent's result its text came from,
                            \* the tool calls of the response it read
    \* Filesystem tools (deep_agents_1/tools.py)
    files,                  \* state["files"]: key -> None or the content
    disk,                   \* the files under the workspace directory, by key
    disk_writable,          \* whether writing under the workspace directory succeeds
    fs_ops,                 \* number of tool calls so far
    fs_change,              \* the last write_file or edit_file that succeeded
    fs_last,                \* the last tool call and what it returned
    \* AdaptiveSummarizationMiddleware (summarization.py)
    summ_max_tokens,        \* self.max_tokens_before_summary
    summ_min_reserved,      \* self.min_reserved_tokens
    summ_messages,          \* the content messages handed to _enforce_budget, as the call
                            \* leaves them
    summ_summaries,         \* the texts the summarizing model answers with, in call order
    summ_pc,                \* "ready" before the call, "returned" after it
    summ_result,            \* what _enforce_budget returned
    summ_base,              \* what super().before_model returned, None or <<messages>>,
                            \* as the middleware leaves it
    summ_update,            \* what before_model returned: None or <<messages>>
    summ_after,             \* state["messages"] once the returned update is applied
    reb_normalized,         \* normalized_messages inside _rebalance_until_within_budget
    reb_flags,              \* preserve_flags inside _rebalance_until_within_budget
    reb_assembled,          \* current, with the number of _create_summary calls so far
    reb_dropped,            \* drop_cluster of the last loop iteration, <<>> before it
    reb_iterations,         \* iterations of the while loop in this call
    \* PatchToolCallsMiddleware (specification 4.10)
    patch_mode,             \* which results count as matching: see MissingResult
    patch_messages,         \* state["messages"]
    patch_input,            \* state["messages"] as the last before_agent call found it
    patch_update,           \* the update the last before_agent call returned
    patch_runs,             \* number of before_agent calls so far
    patch_ids,              \* number of message ids add_messages has given out
    \* compute_summary_budget (summarization.py)
    csb_token_limit,        \* the token_limit argument
    csb_requested,          \* the requested argument: None or <<r>>
    csb_result,             \* None before the call, then <<the value returned>>
    \* filesystem tools in long-term mode (specification 4.7)
    lt_files,               \* state['files']: path -> None or <<content>>
    lt_store,               \* the durable store: key -> None or <<content>>
    lt_overwrite,           \* "blocked" or "replaced": a write over a store entry
    lt_last,                \* the last tool call and what it returned
    lt_ops,                 \* number of tool calls so far
    \* task delegation tool (deep_agents/middleware.py)
    task_state,             \* the parent agent's state: key -> value
    task_injected,          \* the state dictionary handed to the task calls of the
                            \* parent's turn, one object for all of them
    task_variant,           \* is_async of create_task_tool: "async" or "sync"
    task_call,              \* each task call in flight: its arguments, its position
    task_pre,               \* the parent's state before the last task call returned
    task_last,              \* the last task call: its arguments and what it did
    task_calls              \* number of task calls so far

timerVars == <<total_seconds, warning_ratio, warning_offset_seconds, start_time,
               warning_sent, final_sent, clock, timer_state, timer_update,
               timer_calls, timer_pre, warnings_emitted, finals_emitted>>

chatVars == <<checkpoint_saver, saver_env, backend, store, db, postgres_conn, db_clock, call, chat_calls,
              accepted, last_call, overlapped>>

llmVars == <<llm_cache, llm_instances, llm_call, llm_calls, llm_built, llm_returned,
             llm_raised>>

flowVars == <<node, current_plan, plan_iterations, max_plan_iterations, auto_accepted_plan,
              enable_background_investigation, background_investigation_results,
              step_attempts, observations, researcher_reports, final_report, locale,
              research_topic, agent_runs, flow_last>>

fsVars == <<files, disk, disk_writable, fs_ops, fs_change, fs_last>>

summVars == <<summ_max_tokens, summ_min_reserved, summ_messages, summ_summaries,
              summ_pc, summ_result, summ_base, summ_update, summ_after,
              reb_normalized, reb_flags, reb_assembled, reb_dropped, reb_iterations>>

patchVars == <<patch_mode, patch_messages, patch_input, patch_update, patch_runs,
               patch_ids>>

budgetVars == <<csb_token_limit, csb_requested, csb_result>>

longTermVars == <<lt_files, lt_store, lt_overwrite, lt_last, lt_ops>>

taskVars == <<task_state, task_injected, task_variant, task_call, task_pre, task_last, task_calls>>

vars == <<timerVars, chatVars, llmVars, flowVars, fsVars, summVars, patchVars, budgetVars,
          longTermVars, taskVars>>

\* What each component leaves alone.
notTimerVars ==
    <<chatVars, llmVars, flowVars, fsVars, summVars, patchVars, budgetVars, longTermVars, taskVars>>
notChatVars ==
    <<timerVars, llmVars, flowVars, fsVars, summVars, patchVars, budgetVars, longTermVars, taskVars>>
notLlmVars ==
    <<timerVars, chatVars, flowVars, fsVars, summVars, patchVars, budgetVars, longTermVars, taskVars>>
notFlowVars ==
    <<timerVars, chatVars, llmVars, fsVars, summVars, patchVars, budgetVars, longTermVars, taskVars>>
notFsVars ==
    <<timerVars, chatVars, llmVars, flowVars, summVars, patchVars, budgetVars, longTermVars, taskVars>>
notSummVars ==
    <<timerVars, chatVars, llmVars, flowVars, fsVars, patchVars, budgetVars, longTermVars, taskVars>>
notPatchVars ==
    <<timerVars, chatVars, llmVars, flowVars, fsVars, summVars, budgetVars, longTermVars, taskVars>>
notBudgetVars ==
    <<timerVars, chatVars, llmVars, flowVars, fsVars, summVars, patchVars, longTermVars, taskVars>>

(***************************************************************************)
(* Shared helpers                                                          *)
(***************************************************************************)
None == <<>>
Some(x) == <<x>>
Max(a, b) == IF a >= b THEN a ELSE b
Min(a, b) == IF a <= b THEN a ELSE b

Range(seq) == {seq[i] : i \in DOMAIN seq}

\* str.strip() restricted to blanks and newlines
RECURSIVE LStrip(_)
LStrip(s) ==
    IF Len(s) = 0 THEN s
    ELSE IF Head(s) \in {" ", "\n", "\t"} THEN LStrip(Tail(s)) ELSE s

RECURSIVE RStrip(_)
RStrip(s) ==
    IF Len(s) = 0 THEN s
    ELSE IF SubSeq(s, Len(s), Len(s)) \in {" ", "\n", "\t"}
         THEN RStrip(SubSeq(s, 1, Len(s) - 1))
         ELSE s

Strip(s) == RStrip(LStrip(s))

HumanMessage(content, name) == [type |-> "human", content |-> content, name |-> name]
AIText(content) == [type |-> "ai", content |-> content, name |-> "None"]

(***************************************************************************)
(* ResearchTimerMiddleware                                                 *)
(***************************************************************************)
MaxClock == 135
MaxTimerCalls == 4

TimerTotals == {60, 120}
TimerRatios == {25, 50, 90}
TimerOffsets == {0, 60}
ClockDeltas == {0, 5, 30, 65}

\* The default message texts of __init__.
FinalMessageText ==
    "The research timer has elapsed. Deliver a concise final summary that is detailed and extensive, highlighting the most important insights and next steps."

RoundUpMessage(remaining) ==
    "Time check: about " \o remaining
        \o " remaining. Transition into summarizing key findings and prepare the final response."

\* self._warning_deadline, times 100 (warning_ratio is held in percent).
WarningDeadline100(total, ratio, offset) ==
    LET ratio_threshold == total * Max(ratio, 0)
        minute_threshold == IF total > offset THEN total - offset ELSE total
    IN  Max(Min(ratio_threshold, minute_threshold * 100), 0)

\* int(round(n / 60)): Python rounds halves to the even neighbour.
RoundDiv60(n) ==
    LET q == n \div 60
        r == n % 60
    IN  IF r < 30 THEN q
        ELSE IF r > 30 THEN q + 1
        ELSE IF q % 2 = 0 THEN q ELSE q + 1

Plural(n) == IF n # 1 THEN "s" ELSE ""

FormatRemaining(seconds) ==
    LET bounded == Max(seconds, 0)
    IN  IF bounded >= 90
        THEN LET minutes == RoundDiv60(bounded)
             IN  ToString(minutes) \o " minute" \o Plural(minutes)
        ELSE IF bounded >= 60
        THEN LET whole_minutes == bounded \div 60
                 remainder == bounded % 60
             IN  IF remainder = 0
                 THEN ToString(whole_minutes) \o " minute" \o Plural(whole_minutes)
                 ELSE ToString(whole_minutes) \o " minute" \o Plural(whole_minutes)
                        \o " and " \o ToString(remainder) \o " second" \o Plural(remainder)
        ELSE LET seconds_int == Max(bounded, 1)
             IN  ToString(seconds_int) \o " second" \o Plural(seconds_int)

\* _append_message: None when the last message already is that human text.
AppendMessage(messages, content) ==
    IF /\ Len(messages) > 0
       /\ messages[Len(messages)].type = "human"
       /\ Strip(messages[Len(messages)].content) = Strip(content)
    THEN None
    ELSE [messages |-> Append(messages, HumanMessage(content, "timer"))]

\* The conversations a caller hands to before_model.
TimerLastContents ==
    {"Start", FinalMessageText, " " \o FinalMessageText \o "\n"}
        \cup {RoundUpMessage(FormatRemaining(r)) : r \in {30, 60}}

TimerStates ==
    {<<>>}
        \cup {<<HumanMessage(c, "None")>> : c \in TimerLastContents}
        \cup {<<HumanMessage("Start", "None"), AIText(c)>> : c \in {"Working", FinalMessageText}}

TimerInit ==
    /\ total_seconds \in TimerTotals
    /\ warning_ratio \in TimerRatios
    /\ warning_offset_seconds \in TimerOffsets
    /\ start_time = None
    /\ warning_sent = FALSE
    /\ final_sent = FALSE
    /\ clock = 0
    /\ timer_state = <<>>
    /\ timer_update = None
    /\ timer_calls = 0
    /\ timer_pre = [first |-> FALSE, elapsed |-> 0, warning_sent |-> FALSE,
                    final_sent |-> FALSE]
    /\ warnings_emitted = 0
    /\ finals_emitted = 0

TimerIdle ==
    /\ total_seconds = 60
    /\ warning_ratio = 50
    /\ warning_offset_seconds = 60
    /\ start_time = None
    /\ warning_sent = FALSE
    /\ final_sent = FALSE
    /\ clock = 0
    /\ timer_state = <<>>
    /\ timer_update = None
    /\ timer_calls = 0
    /\ timer_pre = [first |-> FALSE, elapsed |-> 0, warning_sent |-> FALSE,
                    final_sent |-> FALSE]
    /\ warnings_emitted = 0
    /\ finals_emitted = 0

\* The if / elif of before_model, lines 66 and 70.
TimerBranch_IgnoresWarningSent(elapsed) ==
    IF ~final_sent /\ elapsed >= total_seconds THEN "final"
    ELSE IF elapsed * 100
              >= WarningDeadline100(total_seconds, warning_ratio, warning_offset_seconds)
         THEN "warning"
         ELSE "none"

TimerBranch_LateWarning(elapsed) ==
    IF ~final_sent /\ elapsed >= total_seconds THEN "final"
    ELSE IF /\ ~warning_sent
            /\ elapsed * 100
                 > WarningDeadline100(total_seconds, warning_ratio, warning_offset_seconds)
         THEN "warning"
         ELSE "none"

TimerBranch(elapsed) ==
    IF ~final_sent /\ elapsed >= total_seconds THEN "final"
    ELSE IF /\ ~warning_sent
            /\ elapsed * 100
                 >= WarningDeadline100(total_seconds, warning_ratio, warning_offset_seconds)
         THEN "warning"
         ELSE "none"

\* self._warning_sent after the branch ran (lines 69 and 76).
WarningSentAfter_FinalLeavesWarning(branch) == warning_sent \/ branch = "warning"

WarningSentAfter(branch) == warning_sent \/ branch \in {"final", "warning"}

\* self._final_sent after the branch ran (line 68).
FinalSentAfter(branch) == final_sent \/ branch = "final"

\* The value of `updates` at the return of before_model.
TimerUpdate(messages, elapsed, branch) ==
    IF branch = "final" THEN AppendMessage(messages, FinalMessageText)
    ELSE IF branch = "warning"
    THEN AppendMessage(messages,
            RoundUpMessage(FormatRemaining(Max(total_seconds - elapsed, 0))))
    ELSE None

LastOf(messages) == messages[Len(messages)]

\* A returned update whose appended message is the final / the warning text.
IsFinalUpdate(u) ==
    /\ u # None
    /\ LastOf(u.messages) = HumanMessage(FinalMessageText, "timer")

IsWarningUpdate(u) ==
    /\ u # None
    /\ LastOf(u.messages).type = "human"
    /\ LastOf(u.messages).name = "timer"
    /\ Len(LastOf(u.messages).content) >= 10
    /\ SubSeq(LastOf(u.messages).content, 1, 10) = "Time check"

\* before_model(state, runtime) with time.monotonic() = now.
BeforeModel(messages, now) ==
    /\ timer_calls < MaxTimerCalls
    /\ timer_calls' = timer_calls + 1
    /\ clock' = now
    /\ timer_state' = messages
    /\ UNCHANGED <<total_seconds, warning_ratio, warning_offset_seconds>>
    /\ UNCHANGED notTimerVars
    /\ IF start_time = None
       THEN /\ start_time' = Some(now)
            /\ timer_update' = None
            /\ timer_pre' = [first |-> TRUE, elapsed |-> 0,
                             warning_sent |-> warning_sent, final_sent |-> final_sent]
            /\ UNCHANGED <<warning_sent, final_sent, warnings_emitted, finals_emitted>>
       ELSE LET elapsed == now - start_time[1]
                branch == TimerBranch(elapsed)
                updates == TimerUpdate(messages, elapsed, branch)
            IN  /\ timer_update' = updates
                /\ timer_pre' = [first |-> FALSE, elapsed |-> elapsed,
                                 warning_sent |-> warning_sent,
                                 final_sent |-> final_sent]
                /\ final_sent' = FinalSentAfter(branch)
                /\ warning_sent' = WarningSentAfter(branch)
                /\ finals_emitted' =
                       IF IsFinalUpdate(updates) THEN finals_emitted + 1 ELSE finals_emitted
                /\ warnings_emitted' =
                       IF IsWarningUpdate(updates)
                       THEN warnings_emitted + 1 ELSE warnings_emitted
                /\ UNCHANGED start_time

TimerNext ==
    \E messages \in TimerStates, d \in ClockDeltas :
        /\ clock + d <= MaxClock
        /\ BeforeModel(messages, clock + d)


(***************************************************************************)
(* ChatStreamManager                                                       *)
(***************************************************************************)
MaxChatCalls == 3

Callers == {"c1", "c2"}
ThreadIds == {"", "t1", "t2"}
ChunkTexts == {"", "a", "b"}
FinishReasons == {"stop", "interrupt", "length"}
Backends == {"mongo", "postgres", "none"}

\* Items of the in-memory store: the cursor is a dict, a chunk a string.
CursorItem(index) == [key |-> "cursor", is_dict |-> TRUE, index |-> index, text |-> ""]
ChunkItem(index, message) ==
    [key |-> "chunk_" \o ToString(index), is_dict |-> FALSE, index |-> 0, text |-> message]

\* InMemoryStore.get(namespace, key): None or <<item>>.
StoreGet(items, key) ==
    IF \E i \in 1..Len(items) : items[i].key = key
    THEN Some(items[CHOOSE i \in 1..Len(items) : items[i].key = key])
    ELSE None

StorePut_AppendOnly(items, item) == Append(items, item)

\* InMemoryStore.put(namespace, key, value): a dict keeps the position of a key
\* it already holds and appends a new key.
StorePut(items, item) ==
    IF \E i \in 1..Len(items) : items[i].key = item.key
    THEN [i \in 1..Len(items) |-> IF items[i].key = item.key THEN item ELSE items[i]]
    ELSE Append(items, item)

\* InMemoryStore.search(namespace, limit=limit): the first `limit` items.
StoreSearch(items, limit) == SubSeq(items, 1, Min(limit, Len(items)))

\* Lines 197-202: keep the truthy values that are no dict.
RECURSIVE ExtractMessages(_)
ExtractMessages(memories) ==
    IF Len(memories) = 0 THEN <<>>
    ELSE LET item == Head(memories)
         IN  IF item.text # "" /\ ~item.is_dict
             THEN <<item.text>> \o ExtractMessages(Tail(memories))
             ELSE ExtractMessages(Tail(memories))

\* Lines 146-155: the index of the chunk this call stores.
CurrentIndex_Restart(items) == 0

CurrentIndex(items) ==
    LET cursor == StoreGet(items, "cursor")
    IN  IF cursor = None THEN 0 ELSE cursor[1].index + 1

\* Line 194: the limit handed to store.search.
SearchLimit_NoCursor(final_index) == final_index + 1

SearchLimit(final_index) == final_index + 2

IdleCall ==
    [pc |-> "idle", thread_id |-> "", message |-> "", finish_reason |-> "",
     current_index |-> 0, messages |-> <<>>, existing |-> FALSE, ts |-> 0,
     affected_rows |-> 0]

\* SELECT ... WHERE thread_id / find_one found a row.
Has(rows, thread_id) == \E i \in 1..Len(rows) : rows[i].thread_id = thread_id

DbHas(thread_id) == Has(db, thread_id)

DbCount(thread_id) == Cardinality({i \in 1..Len(db) : db[i].thread_id = thread_id})

\* The document find_one / SELECT returns for the thread.
DbFirst(thread_id) == db[CHOOSE i \in 1..Len(db) :
                            /\ db[i].thread_id = thread_id
                            /\ \A j \in 1..(i - 1) : db[j].thread_id # thread_id]

\* update_one (line 240): Mongo modifies the first match.
DbUpdated(thread_id, messages, ts) ==
    [i \in 1..Len(db) |->
        IF /\ db[i].thread_id = thread_id
           /\ \A j \in 1..(i - 1) : db[j].thread_id # thread_id
        THEN [db[i] EXCEPT !.messages = messages, !.ts = ts]
        ELSE db[i]]

\* UPDATE ... WHERE thread_id (line 282): SQL modifies every matching row.
RowsUpdated(rows, thread_id, messages, ts) ==
    [i \in 1..Len(rows) |->
        IF rows[i].thread_id = thread_id
        THEN [rows[i] EXCEPT !.messages = messages, !.ts = ts]
        ELSE rows[i]]

\* cursor.rowcount after the UPDATE (line 290).
RowCount(rows, thread_id) ==
    Cardinality({i \in 1..Len(rows) : rows[i].thread_id = thread_id})

\* psycopg.connect (line 86) gives one connection, not in autocommit mode, that
\* every call uses: its statements run in one transaction, which lasts until
\* commit() or rollback() is called on the connection, by whichever call.
\* rows: the table as the statements of the connection see it, the committed
\* rows with the writes executed since.  failed: a statement has raised in the
\* transaction; every later statement raises, and commit() then ends the
\* transaction without storing anything.
NoTransaction(rows) == [rows |-> rows, failed |-> FALSE]

FailedTransaction(conn) == [rows |-> conn.rows, failed |-> TRUE]

\* Lines 238 and 280: the branch the write takes after the lookup.
WriteBranch(existing) == IF existing THEN "update" ELSE "insert"

NoCall == [thread_id |-> "", result |-> FALSE, persisted |-> FALSE]

\* The manager is built at import with the flag the environment holds then
\* (lines 349-352).
ChatInit ==
    /\ checkpoint_saver \in BOOLEAN
    /\ saver_env = checkpoint_saver
    /\ backend \in (IF checkpoint_saver THEN Backends ELSE {"none"})
    /\ store = [t \in ThreadIds |-> <<>>]
    /\ db = <<>>
    /\ postgres_conn = NoTransaction(<<>>)
    /\ db_clock = 0
    /\ call = [c \in Callers |-> IdleCall]
    /\ chat_calls = 0
    /\ accepted = [t \in ThreadIds |-> <<>>]
    /\ last_call = NoCall
    /\ overlapped = {}

ChatIdle ==
    /\ checkpoint_saver = FALSE
    /\ saver_env = FALSE
    /\ backend = "none"
    /\ store = [t \in ThreadIds |-> <<>>]
    /\ db = <<>>
    /\ postgres_conn = NoTransaction(<<>>)
    /\ db_clock = 0
    /\ call = [c \in Callers |-> IdleCall]
    /\ chat_calls = 0
    /\ accepted = [t \in ThreadIds |-> <<>>]
    /\ last_call = NoCall
    /\ overlapped = {}

Returned(thread_id, result, persisted) ==
    last_call' = [thread_id |-> thread_id, result |-> result, persisted |-> persisted]

Terminal(finish_reason) == finish_reason \in {"stop", "interrupt"}

InvalidInput_EmptyMessageAllowed(thread_id, message) == thread_id = ""

\* Lines 133-139: an empty thread_id or an empty message is refused.
InvalidInput(thread_id, message) == thread_id = "" \/ message = ""

\* process_stream_message is modelled one access to shared state at a time,
\* since nothing locks the store or the database between them: the validation
\* and store.get (ProcessStreamMessage), the put of the cursor (PutCursor), the
\* put of the chunk (PutChunk), store.search (PersistCompleteConversation),
\* the lookup with the reading of the clock (PersistFind), the write
\* (PersistWrite) and, on PostgreSQL, the commit or the rollback that ends the
\* call (Commit, Rollback).  call[c] holds the local variables of caller c's
\* call.

\* Lines 133-155: validation, store.get and the index derived from the cursor.
ProcessStreamMessage(c, thread_id, message, finish_reason) ==
    /\ call[c].pc = "idle"
    /\ chat_calls < MaxChatCalls
    /\ chat_calls' = chat_calls + 1
    /\ UNCHANGED <<checkpoint_saver, saver_env, backend, store, db, postgres_conn, db_clock, accepted>>
    /\ UNCHANGED notChatVars
    /\ IF InvalidInput(thread_id, message)
       THEN /\ Returned(thread_id, FALSE, FALSE)
            /\ UNCHANGED <<call, overlapped>>
       ELSE /\ call' = [call EXCEPT ![c] =
                    [IdleCall EXCEPT !.pc = "put_cursor", !.thread_id = thread_id,
                                     !.message = message,
                                     !.finish_reason = finish_reason,
                                     !.current_index = CurrentIndex(store[thread_id])]]
            /\ overlapped' =
                  IF /\ Terminal(finish_reason)
                     /\ \E o \in Callers \ {c} :
                           /\ call[o].pc # "idle"
                           /\ call[o].thread_id = thread_id
                           /\ Terminal(call[o].finish_reason)
                  THEN overlapped \cup {thread_id} ELSE overlapped
            /\ UNCHANGED last_call

\* Lines 149-155: store.put of the cursor.
PutCursor(c) ==
    /\ call[c].pc = "put_cursor"
    /\ store' = [store EXCEPT ![call[c].thread_id] =
                     StorePut(@, CursorItem(call[c].current_index))]
    /\ call' = [call EXCEPT ![c].pc = "put_chunk"]
    /\ UNCHANGED <<checkpoint_saver, saver_env, backend, db, postgres_conn, db_clock, chat_calls,
                   accepted, last_call, overlapped>>
    /\ UNCHANGED notChatVars

\* Lines 158-166: store.put of the chunk; a call whose finish_reason is not
\* terminal returns True.
PutChunk(c) ==
    /\ call[c].pc = "put_chunk"
    /\ store' = [store EXCEPT ![call[c].thread_id] =
                     StorePut(@, ChunkItem(call[c].current_index, call[c].message))]
    /\ accepted' = [accepted EXCEPT ![call[c].thread_id] = Append(@, call[c].message)]
    /\ UNCHANGED <<checkpoint_saver, saver_env, backend, db, postgres_conn, db_clock, chat_calls,
                   overlapped>>
    /\ UNCHANGED notChatVars
    /\ IF Terminal(call[c].finish_reason)
       THEN /\ call' = [call EXCEPT ![c].pc = "search"]
            /\ UNCHANGED last_call
       ELSE /\ call' = [call EXCEPT ![c] = IdleCall]
            /\ Returned(call[c].thread_id, TRUE, FALSE)

\* _persist_complete_conversation up to the choice of the persistence method
\* (lines 191-219): the read-back of the staged chunks.
PersistCompleteConversation(c) ==
    /\ call[c].pc = "search"
    /\ UNCHANGED <<checkpoint_saver, saver_env, backend, store, db, postgres_conn, db_clock, chat_calls,
                   accepted, overlapped>>
    /\ UNCHANGED notChatVars
    /\ LET memories == StoreSearch(store[call[c].thread_id],
                                   SearchLimit(call[c].current_index))
           messages == ExtractMessages(memories)
       IN  IF messages = <<>> \/ ~checkpoint_saver \/ backend = "none"
           THEN /\ call' = [call EXCEPT ![c] = IdleCall]
                /\ Returned(call[c].thread_id, FALSE, FALSE)
           ELSE /\ call' = [call EXCEPT ![c].pc = "find", ![c].messages = messages]
                /\ UNCHANGED last_call

\* _persist_to_mongodb / _persist_to_postgresql, the lookup and the reading of
\* the clock that follows it (lines 234-236, 272-277).
\* db_fails: the driver raised.  On MongoDB the except branch returns False
\* (lines 263-265); on PostgreSQL it first calls rollback() (lines 316-320),
\* which is a step of its own.  A SELECT in a transaction in which a statement
\* has failed raises too.
PersistFind(c, db_fails) ==
    /\ call[c].pc = "find"
    /\ UNCHANGED <<checkpoint_saver, saver_env, backend, store, db, chat_calls, accepted,
                   overlapped>>
    /\ UNCHANGED notChatVars
    /\ IF backend = "postgres" /\ (db_fails \/ postgres_conn.failed)
       THEN /\ call' = [call EXCEPT ![c].pc = "rollback"]
            /\ postgres_conn' = FailedTransaction(postgres_conn)
            /\ UNCHANGED <<db_clock, last_call>>
       ELSE IF db_fails
       THEN /\ call' = [call EXCEPT ![c] = IdleCall]
            /\ Returned(call[c].thread_id, FALSE, FALSE)
            /\ UNCHANGED <<db_clock, postgres_conn>>
       ELSE /\ call' = [call EXCEPT ![c].pc = "write",
                                    ![c].existing =
                                        IF backend = "postgres"
                                        THEN Has(postgres_conn.rows, call[c].thread_id)
                                        ELSE DbHas(call[c].thread_id),
                                    ![c].ts = db_clock + 1]
            /\ db_clock' = db_clock + 1
            /\ UNCHANGED <<last_call, postgres_conn>>

\* _persist_to_mongodb, the write that follows (lines 238-261), with the
\* timestamp read before it: update_one when the lookup found a record,
\* insert_one otherwise.  One driver call stores the document.
PersistToMongodb(c, db_fails) ==
    /\ UNCHANGED postgres_conn
    /\ call' = [call EXCEPT ![c] = IdleCall]
    /\ LET thread_id == call[c].thread_id
           messages == call[c].messages
           ts == call[c].ts
       IN  IF db_fails
           THEN /\ UNCHANGED db
                /\ Returned(thread_id, FALSE, FALSE)
           ELSE IF WriteBranch(call[c].existing) = "update"
           THEN /\ db' = DbUpdated(thread_id, messages, ts)
                /\ Returned(thread_id, DbHas(thread_id), DbHas(thread_id))
           ELSE /\ db' = Append(db, [thread_id |-> thread_id, messages |-> messages,
                                     ts |-> ts])
                /\ Returned(thread_id, TRUE, TRUE)

\* _persist_to_postgresql, cursor.execute of the UPDATE or the INSERT and the
\* reading of cursor.rowcount (lines 280-290, 298-308).  The statement changes
\* what the connection's transaction sees, not yet the table; commit() is the
\* next step.  The UNIQUE constraint on thread_id (line 99) refuses a second
\* row for a thread, also when the first is a row of the same transaction
\* that is not committed yet; the statement then raises like any statement in
\* a failed transaction, and the except branch is entered.
PersistToPostgresql(c, db_fails) ==
    /\ UNCHANGED <<db, last_call>>
    /\ LET thread_id == call[c].thread_id
           rows == postgres_conn.rows
           update == WriteBranch(call[c].existing) = "update"
       IN  IF db_fails \/ postgres_conn.failed \/ (~update /\ Has(rows, thread_id))
           THEN /\ call' = [call EXCEPT ![c].pc = "rollback"]
                /\ postgres_conn' = FailedTransaction(postgres_conn)
           ELSE IF update
           THEN /\ call' = [call EXCEPT ![c].pc = "commit",
                                        ![c].affected_rows = RowCount(rows, thread_id)]
                /\ postgres_conn' = [postgres_conn EXCEPT !.rows =
                       RowsUpdated(rows, thread_id, call[c].messages, call[c].ts)]
           ELSE /\ call' = [call EXCEPT ![c].pc = "commit", ![c].affected_rows = 1]
                /\ postgres_conn' = [postgres_conn EXCEPT !.rows =
                       Append(rows, [thread_id |-> thread_id,
                                     messages |-> call[c].messages, ts |-> call[c].ts])]

\* The write of the backend in use (lines 213-216).
PersistWrite(c, db_fails) ==
    /\ call[c].pc = "write"
    /\ UNCHANGED <<checkpoint_saver, saver_env, backend, store, db_clock, chat_calls,
                   accepted, overlapped>>
    /\ UNCHANGED notChatVars
    /\ IF backend = "postgres"
       THEN PersistToPostgresql(c, db_fails)
       ELSE PersistToMongodb(c, db_fails)

\* self.postgres_conn.commit() (lines 291, 309) and the return that follows
\* (lines 297, 314).  The commit stores what the transaction holds, the writes
\* of other calls included; after a rollback() by another call there is
\* nothing of this call left to store, and in a failed transaction commit()
\* discards everything.  Neither raises, so the call returns
\* affected_rows > 0.  db_fails: commit() itself raised.
Commit(c, db_fails) ==
    /\ call[c].pc = "commit"
    /\ UNCHANGED <<checkpoint_saver, saver_env, backend, store, db_clock, chat_calls,
                   accepted, overlapped>>
    /\ UNCHANGED notChatVars
    /\ IF db_fails
       THEN /\ call' = [call EXCEPT ![c].pc = "rollback"]
            /\ postgres_conn' = FailedTransaction(postgres_conn)
            /\ UNCHANGED <<db, last_call>>
       ELSE /\ db' = IF postgres_conn.failed THEN db ELSE postgres_conn.rows
            /\ postgres_conn' = NoTransaction(db')
            /\ call' = [call EXCEPT ![c] = IdleCall]
            /\ Returned(call[c].thread_id, call[c].affected_rows > 0,
                        call[c].affected_rows > 0)

\* The except branch (lines 316-320): self.postgres_conn.rollback() discards
\* every write of the transaction, those of other calls included, and the
\* call returns False.
Rollback(c) ==
    /\ call[c].pc = "rollback"
    /\ postgres_conn' = NoTransaction(db)
    /\ call' = [call EXCEPT ![c] = IdleCall]
    /\ Returned(call[c].thread_id, FALSE, FALSE)
    /\ UNCHANGED <<checkpoint_saver, saver_env, backend, store, db, db_clock, chat_calls,
                   accepted, overlapped>>
    /\ UNCHANGED notChatVars

NoCallInFlight == \A c \in Callers : call[c].pc = "idle"

\* A call that starts when no call is in flight.
ProcessStreamMessageAlone(c, thread_id, message, finish_reason) ==
    NoCallInFlight /\ ProcessStreamMessage(c, thread_id, message, finish_reason)

\* thread_id values that are no string: one falsy, one truthy (line 133).
NonStringThreadIds == {0, 7}

\* process_stream_message with a thread_id that is no string (lines 133-135).
ProcessStreamMessageNonString(c, thread_id, message, finish_reason) ==
    /\ NoCallInFlight
    /\ chat_calls < MaxChatCalls
    /\ chat_calls' = chat_calls + 1
    /\ Returned(ToString(thread_id), FALSE, FALSE)
    /\ UNCHANGED <<checkpoint_saver, saver_env, backend, store, db, postgres_conn, db_clock, call,
                   accepted, overlapped>>
    /\ UNCHANGED notChatVars

\* process_stream_message when store.get raises (line 146): the except branch
\* (lines 168-172) returns False.
ProcessStreamMessageGetFails(c, thread_id, message, finish_reason) ==
    /\ NoCallInFlight
    /\ chat_calls < MaxChatCalls
    /\ ~InvalidInput(thread_id, message)
    /\ chat_calls' = chat_calls + 1
    /\ Returned(thread_id, FALSE, FALSE)
    /\ UNCHANGED <<checkpoint_saver, saver_env, backend, store, db, postgres_conn, db_clock, call,
                   accepted, overlapped>>
    /\ UNCHANGED notChatVars

\* The later places where the in-memory store can raise: store.put of the
\* cursor (lines 151, 155), store.put of the chunk (line 158), store.search
\* (line 194).
StagingFaults == {"put_cursor", "put_chunk", "search"}

\* The store raises at the access the call has reached: the except branches
\* (lines 168-172, 221-225) return False.
StoreRaises(c) ==
    /\ call[c].pc \in StagingFaults
    /\ call' = [call EXCEPT ![c] = IdleCall]
    /\ Returned(call[c].thread_id, FALSE, FALSE)
    /\ UNCHANGED <<checkpoint_saver, saver_env, backend, store, db, postgres_conn, db_clock, chat_calls,
                   accepted, overlapped>>
    /\ UNCHANGED notChatVars

\* The environment variable changes after the import of the module.
SetSaverEnv(value) ==
    /\ NoCallInFlight
    /\ saver_env # value
    /\ saver_env' = value
    /\ UNCHANGED <<checkpoint_saver, backend, store, db, postgres_conn, db_clock, call, chat_calls,
                   accepted, last_call, overlapped>>
    /\ UNCHANGED notChatVars

ChatStreamMessage_Unguarded(c, thread_id, message, finish_reason) ==
    ProcessStreamMessageAlone(c, thread_id, message, finish_reason)

\* chat_stream_message (lines 355-373): the module's manager behind the
\* LANGGRAPH_CHECKPOINT_SAVER flag, read from the environment at every call
\* (line 367).
ChatStreamMessage(c, thread_id, message, finish_reason) ==
    IF saver_env
    THEN ProcessStreamMessageAlone(c, thread_id, message, finish_reason)
    ELSE /\ NoCallInFlight
         /\ chat_calls < MaxChatCalls
         /\ chat_calls' = chat_calls + 1
         /\ Returned(thread_id, FALSE, FALSE)
         /\ UNCHANGED <<checkpoint_saver, saver_env, backend, store, db, postgres_conn, db_clock, call,
                        accepted, overlapped>>
         /\ UNCHANGED notChatVars

\* Calls one after the other.
ChatNextSequential ==
    \/ \E c \in Callers, t \in ThreadIds, msg \in ChunkTexts, f \in FinishReasons :
          ProcessStreamMessageAlone(c, t, msg, f)
    \/ \E c \in Callers : PutCursor(c)
    \/ \E c \in Callers : PutChunk(c)
    \/ \E c \in Callers : PersistCompleteConversation(c)
    \/ \E c \in Callers, fails \in BOOLEAN : PersistFind(c, fails)
    \/ \E c \in Callers, fails \in BOOLEAN : PersistWrite(c, fails)
    \/ \E c \in Callers, fails \in BOOLEAN : Commit(c, fails)
    \/ \E c \in Callers : Rollback(c)

MaxFaultyCalls == 2

\* Calls one after the other, through the manager or through the module's
\* function, with every input the validation refuses and every place where the
\* in-memory store or the database can raise.  The calls do not overlap, so
\* one caller makes them all.
FaultyStart(c) == c = "c1" /\ chat_calls < MaxFaultyCalls

ChatNextFaulty ==
    \/ \E c \in Callers, t \in ThreadIds, msg \in ChunkTexts, f \in FinishReasons :
          FaultyStart(c) /\ ProcessStreamMessageAlone(c, t, msg, f)
    \/ \E c \in Callers, t \in NonStringThreadIds, msg \in ChunkTexts,
          f \in FinishReasons :
          FaultyStart(c) /\ ProcessStreamMessageNonString(c, t, msg, f)
    \/ \E c \in Callers, t \in ThreadIds, msg \in ChunkTexts, f \in FinishReasons :
          FaultyStart(c) /\ ProcessStreamMessageGetFails(c, t, msg, f)
    \/ \E c \in Callers, t \in ThreadIds, msg \in ChunkTexts, f \in FinishReasons :
          FaultyStart(c) /\ ChatStreamMessage(c, t, msg, f)
    \/ \E value \in BOOLEAN : SetSaverEnv(value)
    \/ \E c \in Callers : StoreRaises(c)
    \/ \E c \in Callers : PutCursor(c)
    \/ \E c \in Callers : PutChunk(c)
    \/ \E c \in Callers : PersistCompleteConversation(c)
    \/ \E c \in Callers, fails \in BOOLEAN : PersistFind(c, fails)
    \/ \E c \in Callers, fails \in BOOLEAN : PersistWrite(c, fails)
    \/ \E c \in Callers, fails \in BOOLEAN : Commit(c, fails)
    \/ \E c \in Callers : Rollback(c)

MaxConcurrentCalls == 2

\* Calls from concurrent callers: the steps of different calls interleave.
ChatNextConcurrent ==
    \/ \E c \in Callers, t \in ThreadIds, msg \in ChunkTexts, f \in FinishReasons :
          chat_calls < MaxConcurrentCalls /\ ProcessStreamMessage(c, t, msg, f)
    \/ \E c \in Callers : PutCursor(c)
    \/ \E c \in Callers : PutChunk(c)
    \/ \E c \in Callers : PersistCompleteConversation(c)
    \/ \E c \in Callers, fails \in BOOLEAN : PersistFind(c, fails)
    \/ \E c \in Callers, fails \in BOOLEAN : PersistWrite(c, fails)
    \/ \E c \in Callers, fails \in BOOLEAN : Commit(c, fails)
    \/ \E c \in Callers : Rollback(c)

(***************************************************************************)
(* LLM provider factory                                                    *)
(***************************************************************************)
MaxLlmCalls == 5

\* "other" stands for a type _get_llm_type_config_keys does not know.
LlmTypes == {"basic", "reasoning", "other"}
KnownLlmTypes == {"basic", "reasoning"}

IdleLlmCall == [pc |-> "idle", llm_type |-> "", llm |-> 0]

\* Line 300: `llm_type in _llm_cache`.
InCache_NeverHit(cache, llm_type) == FALSE

InCache(cache, llm_type) == cache[llm_type] # None

LlmInit ==
    /\ llm_cache = [t \in LlmTypes |-> None]
    /\ llm_instances = 0
    /\ llm_call = [c \in Callers |-> IdleLlmCall]
    /\ llm_calls = 0
    /\ llm_built = [t \in LlmTypes |-> 0]
    /\ llm_returned = [t \in LlmTypes |-> <<>>]
    /\ llm_raised = 0

LlmIdle == LlmInit

\* get_llm_by_type, lines 300-301: a cached instance is returned at once.
GetLlmByType(c, llm_type) ==
    /\ llm_call[c].pc = "idle"
    /\ llm_calls < MaxLlmCalls
    /\ llm_calls' = llm_calls + 1
    /\ UNCHANGED <<llm_cache, llm_instances, llm_built, llm_raised>>
    /\ UNCHANGED notLlmVars
    /\ IF InCache(llm_cache, llm_type)
       THEN /\ llm_returned' = [llm_returned EXCEPT
                                   ![llm_type] = Append(@, llm_cache[llm_type][1])]
            /\ UNCHANGED llm_call
       ELSE /\ llm_call' = [llm_call EXCEPT
                               ![c] = [pc |-> "create", llm_type |-> llm_type, llm |-> 0]]
            /\ UNCHANGED llm_returned

\* Lines 303-304: load the configuration and construct the client.  An unknown
\* type or a missing configuration raises (lines 89-94, 219-220), and the call
\* ends without touching the cache.
CreateLlmUseConf(c, configured) ==
    /\ llm_call[c].pc = "create"
    /\ UNCHANGED <<llm_cache, llm_calls, llm_returned>>
    /\ UNCHANGED notLlmVars
    /\ IF llm_call[c].llm_type \in KnownLlmTypes /\ configured
       THEN /\ llm_instances' = llm_instances + 1
            /\ llm_built' = [llm_built EXCEPT ![llm_call[c].llm_type] = @ + 1]
            /\ llm_call' = [llm_call EXCEPT ![c].pc = "assign",
                                            ![c].llm = llm_instances + 1]
            /\ UNCHANGED llm_raised
       ELSE /\ llm_call' = [llm_call EXCEPT ![c] = IdleLlmCall]
            /\ llm_raised' = llm_raised + 1
            /\ UNCHANGED <<llm_instances, llm_built>>

\* Lines 305-306: cache the new instance and return it.
CacheAndReturn(c) ==
    /\ llm_call[c].pc = "assign"
    /\ llm_cache' = [llm_cache EXCEPT ![llm_call[c].llm_type] = Some(llm_call[c].llm)]
    /\ llm_returned' = [llm_returned EXCEPT
                           ![llm_call[c].llm_type] = Append(@, llm_call[c].llm)]
    /\ llm_call' = [llm_call EXCEPT ![c] = IdleLlmCall]
    /\ UNCHANGED <<llm_instances, llm_calls, llm_built, llm_raised>>
    /\ UNCHANGED notLlmVars

NoLlmCallInFlight == \A c \in Callers : llm_call[c].pc = "idle"

\* A call that starts when no call is in flight.
GetLlmByTypeAlone(c, llm_type) == NoLlmCallInFlight /\ GetLlmByType(c, llm_type)

\* Calls one after the other.
LlmNextSequential ==
    \/ \E c \in Callers, t \in LlmTypes : GetLlmByTypeAlone(c, t)
    \/ \E c \in Callers, configured \in BOOLEAN : CreateLlmUseConf(c, configured)
    \/ \E c \in Callers : CacheAndReturn(c)

\* Calls from concurrent threads.
LlmNextConcurrent ==
    \/ \E c \in Callers, t \in LlmTypes : GetLlmByType(c, t)
    \/ \E c \in Callers, configured \in BOOLEAN : CreateLlmUseConf(c, configured)
    \/ \E c \in Callers : CacheAndReturn(c)

(***************************************************************************)
(* Research workflow                                                       *)
(***************************************************************************)
MaxPlanSteps == 2
MaxObservations == 4
MaxPlanIterations == 2

\* RESEARCH_STEP_MAX_ATTEMPTS, default.
MaxAttempts == 3

\* The planner's model titles the steps of a plan by their place.
StepTitle(i) == "Step " \o ToString(i)
StepTitles == {StepTitle(i) : i \in 1..MaxPlanSteps}
StepTypes == {"research", "processing"}
AgentResponses == {"", "r"}
DeepAgentCompleted ==
    "Completed during consolidated deep-agent execution. Refer to final_report.md for detailed findings."

\* The plans the planner's model can produce: a step may come with a result
\* already filled in (the plan is patched against the existing one).
PlanSteps == [step_type : StepTypes, execution_res : {"", "done"}]
StepLists ==
    UNION {{[i \in 1..n |-> [title |-> StepTitle(i), step_type |-> f[i].step_type,
                             execution_res |-> f[i].execution_res]] :
               f \in [1..n -> PlanSteps]} : n \in 0..MaxPlanSteps}
Plans == [locale : {"zh-CN"}, has_enough_context : BOOLEAN, steps : StepLists]

Executed(step) == step.execution_res # ""

\* Lines 779-787: the index of the first step without a result, 0 when none.
FirstUnexecuted_Last(steps) ==
    IF \A i \in 1..Len(steps) : Executed(steps[i]) THEN 0
    ELSE CHOOSE i \in 1..Len(steps) :
            ~Executed(steps[i]) /\ \A j \in (i + 1)..Len(steps) : Executed(steps[j])

FirstUnexecuted(steps) ==
    IF \A i \in 1..Len(steps) : Executed(steps[i]) THEN 0
    ELSE CHOOSE i \in 1..Len(steps) :
            ~Executed(steps[i]) /\ \A j \in 1..(i - 1) : Executed(steps[j])

\* The routing function of research_team: reporter once every step has a
\* result, else the node for the pending step's type.
ContinueToRunningResearchTeam(plan) ==
    IF plan = None THEN "reporter"
    ELSE LET i == FirstUnexecuted(plan[1].steps)
         IN  IF i = 0 THEN "reporter"
             ELSE IF plan[1].steps[i].step_type = "research" THEN "researcher"
             ELSE "coder"

LowerCase == "abcdefghijklmnopqrstuvwxyz"
UpperCase == "ABCDEFGHIJKLMNOPQRSTUVWXYZ"

UpperChar(ch) ==
    IF \E i \in 1..26 : SubSeq(LowerCase, i, i) = ch
    THEN LET i == CHOOSE i \in 1..26 : SubSeq(LowerCase, i, i) = ch
         IN  SubSeq(UpperCase, i, i)
    ELSE ch

\* str.upper
RECURSIVE Upper(_)
Upper(str) ==
    IF Len(str) = 0 THEN ""
    ELSE UpperChar(SubSeq(str, 1, 1)) \o Upper(SubSeq(str, 2, Len(str)))

\* str.startswith
StartsWith(str, prefix) ==
    Len(str) >= Len(prefix) /\ SubSeq(str, 1, Len(prefix)) = prefix

Feedbacks == {"[EDIT_PLAN] add a step", "[edit_plan]", "[ACCEPTED]", "[accepted] go",
              "looks good", ""}

\* The tool calls of the coordinator's response.
ToolCall(name, loc, topic) == [name |-> name, locale |-> loc, research_topic |-> topic]
CoordinatorToolCalls ==
    { <<>>,
      <<ToolCall("handoff_to_planner", "fr-FR", "topic")>>,
      <<ToolCall("handoff_to_planner", "", "topic")>>,
      <<ToolCall("other_tool", "de-DE", "other")>>,
      <<ToolCall("other_tool", "de-DE", "other"),
        ToolCall("handoff_to_planner", "fr-FR", "topic")>> }

\* Lines 432-440: the first handoff_to_planner call that carries both arguments.
HandoffArgs(tool_calls) ==
    LET good == {i \in 1..Len(tool_calls) :
                    /\ tool_calls[i].name = "handoff_to_planner"
                    /\ tool_calls[i].locale # ""
                    /\ tool_calls[i].research_topic # ""}
    IN  IF good = {} THEN None
        ELSE Some(tool_calls[CHOOSE i \in good : \A j \in good : i <= j])

\* The entry of result["files"] for final_report.md: none, a string, a
\* mapping whose content is a string, or FileData, the mapping the filesystem
\* middleware stores a file as, whose content is the list of the file's lines.
NoFileEntry == [shape |-> "none", content |-> "", lines |-> <<>>]
TextEntry(text) == [shape |-> "str", content |-> text, lines |-> <<>>]
MappingEntry(text) == [shape |-> "mapping", content |-> text, lines |-> <<>>]
FileData(lines) == [shape |-> "file_data", content |-> "", lines |-> lines]

\* What a deep-agent run hands back: the final_report.md file entry, the
\* final_report field and the last message's content.
DeepAgentResult(file, field, last) == [file |-> file, field |-> field, last |-> last]
DeepAgentResults ==
    {DeepAgentResult(TextEntry("report"), "", " answer "),
     DeepAgentResult(MappingEntry(" report\n"), "", " answer "),
     DeepAgentResult(FileData(<<"report">>), "", " answer "),
     DeepAgentResult(FileData(<<"report">>), "", ""),
     DeepAgentResult(TextEntry(" "), " report", " answer "),
     DeepAgentResult(NoFileEntry, "", " answer "),
     DeepAgentResult(NoFileEntry, "", "")}
StrOfResult == "{'messages': [...]}"

\* _extract_file_payload (lines 582-591), "" for None: a string is stripped; a
\* mapping gives its content as it is when that is a string and not blank; a
\* content that is a list of lines gives nothing.
ExtractFilePayload(file_entry) ==
    CASE file_entry.shape = "str" -> Strip(file_entry.content)
      [] file_entry.shape = "mapping" ->
            IF Strip(file_entry.content) # "" THEN file_entry.content ELSE ""
      [] OTHER -> ""

\* _extract_final_report_from_result: the part of the result the text is
\* taken from.
ExtractedFrom(result) ==
    IF ExtractFilePayload(result.file) # "" THEN "file"
    ELSE IF ExtractFilePayload(TextEntry(result.field)) # "" THEN "field"
    ELSE IF Strip(result.last) # "" THEN "last"
    ELSE "str"

\* _extract_final_report_from_result: <<content, has_payload>>.
ExtractFinalReportFromResult(result) ==
    IF ExtractFilePayload(result.file) # ""
    THEN <<ExtractFilePayload(result.file), TRUE>>
    ELSE IF ExtractFilePayload(TextEntry(result.field)) # ""
    THEN <<ExtractFilePayload(TextEntry(result.field)), TRUE>>
    ELSE IF Strip(result.last) # "" THEN <<Strip(result.last), TRUE>>
    ELSE <<StrOfResult, FALSE>>

NoAttempts == [t \in StepTitles |-> 0]

NoNodeRan ==
    [node |-> "", selected |-> 0, invoked |-> FALSE, interrupted |-> FALSE, feedback |-> "",
     feedback_message |-> "", extracted_from |-> "", file_shape |-> "",
     tool_calls |-> <<>>]

\* The configurations a run is started with: max_plan_iterations,
\* auto_accepted_plan, enable_background_investigation.
FlowConfigs ==
    { <<1, FALSE, FALSE>>, <<1, TRUE, TRUE>>,
      <<MaxPlanIterations, FALSE, TRUE>>, <<MaxPlanIterations, TRUE, FALSE>> }

\* The state a run starts with.  The graph's state has a key once a value was
\* written for it: a run starts without final_report unless its input gives
\* the empty default.
FlowInit ==
    /\ node = "coordinator"
    /\ current_plan = None
    /\ plan_iterations = 0
    /\ \E config \in FlowConfigs :
          /\ max_plan_iterations = config[1]
          /\ auto_accepted_plan = config[2]
          /\ enable_background_investigation = config[3]
    /\ background_investigation_results = ""
    /\ step_attempts = NoAttempts
    /\ observations = <<>>
    /\ researcher_reports = ""
    /\ final_report \in {None, Some("")}
    /\ locale = "en-US"
    /\ research_topic = ""
    /\ agent_runs = NoAttempts
    /\ flow_last = NoNodeRan

FlowIdle ==
    /\ node = "__end__"
    /\ current_plan = None
    /\ plan_iterations = 0
    /\ max_plan_iterations = 1
    /\ auto_accepted_plan = FALSE
    /\ enable_background_investigation = FALSE
    /\ background_investigation_results = ""
    /\ step_attempts = NoAttempts
    /\ observations = <<>>
    /\ researcher_reports = ""
    /\ final_report = None
    /\ locale = "en-US"
    /\ research_topic = ""
    /\ agent_runs = NoAttempts
    /\ flow_last = NoNodeRan

Ran(n, selected, invoked) ==
    flow_last' = [node |-> n, selected |-> selected, invoked |-> invoked,
                  interrupted |-> FALSE, feedback |-> "", feedback_message |-> "",
                  extracted_from |-> "", file_shape |-> "",
     tool_calls |-> <<>>]

configVars == <<max_plan_iterations, auto_accepted_plan, enable_background_investigation>>

CoordinatorGoto_HandoffOnly(tool_calls, background) ==
    IF \A i \in 1..Len(tool_calls) : tool_calls[i].name # "handoff_to_planner"
    THEN "__end__"
    ELSE IF background THEN "background_investigator"
    ELSE "planner"

\* Lines 421-429: the coordinator goes on when the response has tool calls.
CoordinatorGoto(tool_calls, background) ==
    IF Len(tool_calls) = 0 THEN "__end__"
    ELSE IF background THEN "background_investigator"
    ELSE "planner"

\* coordinator_node.
CoordinatorNode(tool_calls) ==
    /\ node = "coordinator"
    /\ node' = CoordinatorGoto(tool_calls, enable_background_investigation)
    /\ LET args == HandoffArgs(tool_calls)
       IN  /\ locale' = IF args = None THEN locale ELSE args[1].locale
           /\ research_topic' = IF args = None THEN research_topic
                                ELSE args[1].research_topic
    /\ flow_last' = [NoNodeRan EXCEPT !.node = "coordinator", !.tool_calls = tool_calls]
    /\ UNCHANGED <<current_plan, plan_iterations, configVars,
                   background_investigation_results, step_attempts, observations,
                   researcher_reports, final_report>>
    /\ UNCHANGED notFlowVars
    /\ UNCHANGED agent_runs

\* background_investigation_node, then the graph's edge to planner.
BackgroundInvestigationNode(results) ==
    /\ node = "background_investigator"
    /\ node' = "planner"
    /\ background_investigation_results' = results
    /\ Ran("background_investigator", 0, FALSE)
    /\ UNCHANGED <<current_plan, plan_iterations, configVars, step_attempts, observations,
                   researcher_reports, final_report, locale, research_topic>>
    /\ UNCHANGED notFlowVars
    /\ UNCHANGED agent_runs

NormalisedPlan_AsGenerated(new_plan) == new_plan

\* Lines 173-181: a plan with steps never claims enough context.
NormalisedPlan(new_plan) ==
    IF Len(new_plan.steps) > 0 /\ new_plan.has_enough_context
    THEN [new_plan EXCEPT !.has_enough_context = FALSE]
    ELSE new_plan

PlannerGoto_AlwaysFeedback(new_plan) ==
    IF Len(new_plan.steps) > 0 THEN "human_feedback"
    ELSE IF new_plan.has_enough_context THEN "reporter"
    ELSE "human_feedback"

\* Lines 197-209: where the planner goes with a new plan.
PlannerGoto(new_plan) ==
    IF Len(new_plan.steps) > 0
    THEN (IF auto_accepted_plan THEN "research_team" ELSE "human_feedback")
    ELSE IF new_plan.has_enough_context THEN "reporter"
    ELSE "human_feedback"

AtCeiling_OneMore(iterations, ceiling) == iterations > ceiling

\* Line 126: the planner has used up its iterations.
AtCeiling(iterations, ceiling) == iterations >= ceiling

CeilingGoto_Reporter(existing_plan) == "reporter"

\* Lines 132-140: at the ceiling the planner continues with the plan it has.
CeilingGoto(existing_plan) ==
    IF existing_plan # None /\ Len(existing_plan[1].steps) > 0
    THEN "research_team" ELSE "reporter"

\* planner_node.  generated: None when build_plan_with_trustcall raised, else
\* the plan it returned; at the ceiling it is not called.
PlannerNode(generated) ==
    /\ node = "planner"
    /\ AtCeiling(plan_iterations, max_plan_iterations) => generated = None
    /\ Ran("planner", 0, FALSE)
    /\ UNCHANGED <<configVars, background_investigation_results, step_attempts,
                   observations, researcher_reports, final_report, locale, research_topic>>
    /\ UNCHANGED notFlowVars
    /\ IF AtCeiling(plan_iterations, max_plan_iterations)
       THEN /\ node' = CeilingGoto(current_plan)
            /\ UNCHANGED <<current_plan, plan_iterations, agent_runs>>
       ELSE IF generated = None
       THEN /\ node' = IF plan_iterations > 0 THEN "reporter" ELSE "__end__"
            /\ UNCHANGED <<current_plan, plan_iterations, agent_runs>>
       ELSE LET new_plan == NormalisedPlan(generated[1])
            IN  /\ node' = PlannerGoto(new_plan)
                /\ current_plan' = Some(new_plan)
                /\ plan_iterations' = plan_iterations + 1
                /\ agent_runs' = NoAttempts

IsEditPlan_CaseSensitive(feedback) == feedback # "" /\ StartsWith(feedback, "[EDIT_PLAN]")

\* Line 309: feedback and str(feedback).upper().startswith("[EDIT_PLAN]").
IsEditPlan(feedback) == feedback # "" /\ StartsWith(Upper(feedback), "[EDIT_PLAN]")

\* Line 318.
IsAccepted(feedback) == feedback # "" /\ StartsWith(Upper(feedback), "[ACCEPTED]")

\* human_feedback_node.  feedback: the value the interrupt resumes with; the
\* interrupt is reached only when the plan is not auto-accepted.
HumanFeedbackNode(feedback) ==
    /\ node = "human_feedback"
    /\ flow_last' = [node |-> "human_feedback", selected |-> 0, invoked |-> FALSE,
                     interrupted |-> ~auto_accepted_plan,
                     feedback |-> IF auto_accepted_plan THEN "" ELSE feedback,
                     feedback_message |-> IF ~auto_accepted_plan /\ IsEditPlan(feedback)
                                          THEN feedback ELSE "",
                     extracted_from |-> "", file_shape |-> "",
     tool_calls |-> <<>>]
    /\ UNCHANGED <<current_plan, plan_iterations, configVars,
                   background_investigation_results, step_attempts, observations,
                   researcher_reports, final_report, research_topic>>
    /\ UNCHANGED notFlowVars
    /\ UNCHANGED agent_runs
    /\ IF ~auto_accepted_plan /\ IsEditPlan(feedback)
       THEN node' = "planner" /\ UNCHANGED locale
       ELSE IF ~auto_accepted_plan /\ ~IsAccepted(feedback)
       THEN node' = "__error__" /\ UNCHANGED locale
       ELSE IF current_plan = None
       THEN /\ node' = IF plan_iterations > 1 THEN "reporter" ELSE "__end__"
            /\ UNCHANGED locale
       ELSE /\ node' = "research_team"
            /\ locale' = current_plan[1].locale

\* research_team_node (a no-op) and the graph's routing function.
ResearchTeamNode ==
    /\ node = "research_team"
    /\ node' = ContinueToRunningResearchTeam(current_plan)
    /\ Ran("research_team", 0, FALSE)
    /\ UNCHANGED <<current_plan, plan_iterations, configVars,
                   background_investigation_results, step_attempts, observations,
                   researcher_reports, final_report, locale, research_topic>>
    /\ UNCHANGED notFlowVars
    /\ UNCHANGED agent_runs

MarkAllCompleted_FirstOnly(steps) ==
    [i \in 1..Len(steps) |->
        IF i = FirstUnexecuted(steps)
        THEN [title |-> steps[i].title, step_type |-> steps[i].step_type,
              execution_res |-> DeepAgentCompleted]
        ELSE steps[i]]

MarkAllCompleted_Overwrite(steps) ==
    [i \in 1..Len(steps) |->
        [title |-> steps[i].title, step_type |-> steps[i].step_type,
         execution_res |-> DeepAgentCompleted]]

\* Lines 729-734: every step without a result gets the completion note.
MarkAllCompleted(steps) ==
    [i \in 1..Len(steps) |->
        IF Executed(steps[i]) THEN steps[i]
        ELSE [steps[i] EXCEPT !.execution_res = DeepAgentCompleted]]

DeepAgentStepGoto_End(plan) == IF plan = None THEN "planner" ELSE "__end__"

\* Lines 664-666 and 767: where the consolidated run goes next.
DeepAgentStepGoto(plan) == IF plan = None THEN "planner" ELSE "research_team"

\* Lines 749-761: the final_report the researcher's update carries.  Found in
\* the artifact, the extracted text is the report; otherwise the update takes
\* state.get("final_report", response_content) for a text and
\* state.get("final_report", "") for none, which is the state's value only when
\* the state has the key.
FinalReportUpdate(current, response_content, has_final_report_payload) ==
    IF response_content # "" /\ has_final_report_payload THEN Some(response_content)
    ELSE IF current # None THEN current
    ELSE Some(response_content)

\* researcher_node: _setup_and_execute_deep_agent_step and
\* _execute_deepagent_step, one consolidated deep-agent run.
ResearcherNode(result) ==
    /\ node = "researcher"
    /\ UNCHANGED <<plan_iterations, configVars, background_investigation_results, locale,
                   research_topic>>
    /\ UNCHANGED notFlowVars
    /\ node' = DeepAgentStepGoto(current_plan)
    /\ IF current_plan = None
       THEN /\ Ran("researcher", 0, FALSE)
            /\ UNCHANGED <<current_plan, step_attempts, observations, researcher_reports,
                           final_report, agent_runs>>
       ELSE LET extracted == ExtractFinalReportFromResult(result)
                response_content == Strip(extracted[1])
                has_final_report_payload == extracted[2]
            IN  /\ Len(observations) < MaxObservations
                /\ flow_last' = [NoNodeRan EXCEPT !.node = "researcher", !.invoked = TRUE,
                                                  !.extracted_from = ExtractedFrom(result),
                                                  !.file_shape = result.file.shape]
                /\ observations' = IF response_content # ""
                                   THEN Append(observations, response_content)
                                   ELSE observations
                /\ current_plan' = Some([current_plan[1] EXCEPT
                                            !.steps = MarkAllCompleted(@)])
                /\ step_attempts' = NoAttempts
                /\ agent_runs' = NoAttempts
                /\ researcher_reports' = IF response_content # "" THEN response_content
                                         ELSE researcher_reports
                /\ final_report' = FinalReportUpdate(final_report, response_content,
                                                     has_final_report_payload)

\* Lines 796 and 881: the attempt is counted in the dictionary that line 796
\* took, which is the state's own only when that one is not empty; the count
\* then stays in the state though the node returns no update.
CountedInPlace(attempts, title) ==
    IF attempts = NoAttempts THEN attempts ELSE [attempts EXCEPT ![title] = @ + 1]

\* coder_node: _setup_and_execute_agent_step and _execute_agent_step.
\* outcome: the content of the agent's last message, or "raise" when the agent
\* run raised.  Nothing catches what agent.ainvoke raises (lines 882-884): the
\* node returns no update and the run of the graph ends with the exception.
CoderNode(outcome) ==
    /\ node = "coder"
    /\ current_plan # None
    /\ UNCHANGED <<plan_iterations, configVars, background_investigation_results,
                   researcher_reports, final_report, locale, research_topic>>
    /\ UNCHANGED notFlowVars
    /\ LET steps == current_plan[1].steps
           i == FirstUnexecuted(steps)
       IN  IF i = 0
           THEN /\ node' = "research_team"
                /\ Ran("coder", 0, FALSE)
                /\ UNCHANGED <<current_plan, step_attempts, observations, agent_runs>>
           ELSE IF step_attempts[steps[i].title] >= MaxAttempts
           THEN /\ node' = "planner"
                /\ Ran("coder", i, FALSE)
                /\ UNCHANGED <<current_plan, step_attempts, observations, agent_runs>>
           ELSE IF outcome = "raise"
           THEN /\ node' = "__error__"
                /\ Ran("coder", i, TRUE)
                /\ step_attempts' = CountedInPlace(step_attempts, steps[i].title)
                /\ agent_runs' = [agent_runs EXCEPT ![steps[i].title] = @ + 1]
                /\ UNCHANGED <<current_plan, observations>>
           ELSE /\ Len(observations) < MaxObservations
                /\ node' = "research_team"
                /\ Ran("coder", i, TRUE)
                /\ current_plan' = Some([current_plan[1] EXCEPT
                                            !.steps[i].execution_res = outcome])
                /\ step_attempts' = [step_attempts EXCEPT ![steps[i].title] = 0]
                /\ agent_runs' = [agent_runs EXCEPT ![steps[i].title] =
                                      IF outcome = "" THEN @ + 1 ELSE 0]
                /\ observations' = Append(observations, outcome)

\* reporter_node, then the graph's edge to the end.
ReporterNode(response_content) ==
    /\ node = "reporter"
    /\ Ran("reporter", 0, FALSE)
    /\ UNCHANGED <<current_plan, plan_iterations, configVars,
                   background_investigation_results, step_attempts, observations, locale,
                   research_topic>>
    /\ UNCHANGED notFlowVars
    /\ UNCHANGED agent_runs
    /\ IF Strip(researcher_reports) # ""
       THEN /\ node' = "__end__"
            /\ final_report' = Some(researcher_reports)
            /\ researcher_reports' = ""
       ELSE IF current_plan = None
       THEN /\ node' = "__error__"
            /\ UNCHANGED <<researcher_reports, final_report>>
       ELSE /\ node' = "__end__"
            /\ final_report' = Some(response_content)
            /\ UNCHANGED researcher_reports

FlowNext ==
    \/ \E tool_calls \in CoordinatorToolCalls : CoordinatorNode(tool_calls)
    \/ \E results \in {"", "results"} : BackgroundInvestigationNode(results)
    \/ \E generated \in {None} \cup {Some(plan) : plan \in Plans} : PlannerNode(generated)
    \/ \E feedback \in Feedbacks : HumanFeedbackNode(feedback)
    \/ ResearchTeamNode
    \/ \E result \in DeepAgentResults : ResearcherNode(result)
    \/ \E outcome \in AgentResponses \cup {"raise"} : CoderNode(outcome)
    \/ \E response_content \in {"", "final"} : ReporterNode(response_content)

(***************************************************************************)
(* Filesystem tools                                                        *)
(***************************************************************************)
MaxFsOps == 2

\* _DEFAULT_WORKDIR, as path components.
DefaultWorkdir == <<"work">>

\* Line 99 and line 142.
DefaultLimit == 2000
MaxLineChars == 2000

\* str.split("/") without the empty components ("a//b", a leading "/").
RECURSIVE PathParts(_, _)
PathParts(path, part) ==
    IF Len(path) = 0 THEN (IF part = "" THEN <<>> ELSE <<part>>)
    ELSE IF SubSeq(path, 1, 1) = "/"
    THEN (IF part = "" THEN <<>> ELSE <<part>>) \o PathParts(SubSeq(path, 2, Len(path)), "")
    ELSE PathParts(SubSeq(path, 2, Len(path)), part \o SubSeq(path, 1, 1))

\* Path.resolve on components: "." is dropped, ".." leaves the directory
\* (the root is its own parent).
RECURSIVE ResolveParts(_, _)
ResolveParts(done, parts) ==
    IF Len(parts) = 0 THEN done
    ELSE IF Head(parts) = "." THEN ResolveParts(done, Tail(parts))
    ELSE IF Head(parts) = ".."
    THEN ResolveParts(IF Len(done) = 0 THEN done ELSE SubSeq(done, 1, Len(done) - 1),
                      Tail(parts))
    ELSE ResolveParts(Append(done, Head(parts)), Tail(parts))

RECURSIVE JoinWith(_, _)
JoinWith(parts, sep) ==
    IF Len(parts) = 0 THEN ""
    ELSE IF Len(parts) = 1 THEN parts[1]
    ELSE parts[1] \o sep \o JoinWith(Tail(parts), sep)

IsAbsolute(path) == Len(path) > 0 /\ SubSeq(path, 1, 1) = "/"

AccessError == "Error: Access outside of the workspace is not permitted"

\* _resolve_path: the resolved path, the state key and the error.
ResolvePath(file_path) ==
    LET parts == IF IsAbsolute(file_path) THEN PathParts(file_path, "")
                 ELSE DefaultWorkdir \o PathParts(file_path, "")
        resolved == ResolveParts(<<>>, parts)
        n == Len(DefaultWorkdir)
    IN  IF Len(resolved) >= n /\ SubSeq(resolved, 1, n) = DefaultWorkdir
        THEN [resolved |-> "/" \o JoinWith(resolved, "/"),
              key |-> IF Len(resolved) = n THEN "."
                      ELSE JoinWith(SubSeq(resolved, n + 1, Len(resolved)), "/"),
              error |-> ""]
        ELSE [resolved |-> "", key |-> "", error |-> AccessError]

FsPaths == {"a.txt", "./a.txt", "/work/d/../b.txt", "/etc/a.txt", "../a.txt"}
FsKeys == {ResolvePath(path).key : path \in {q \in FsPaths : ResolvePath(q).error = ""}}
FsContents == {"", " ", "a", "ab", "aab", "a\nb", "ab\n", "\nab"}
OldStrings == {"a", "ab", "c", ""}
NewStrings == {"c", ""}

\* str.splitlines for "\n", "\r" and "\r\n": no empty last line.
RECURSIVE SplitLines(_, _)
SplitLines(content, line) ==
    IF Len(content) = 0 THEN (IF line = "" THEN <<>> ELSE <<line>>)
    ELSE IF Len(content) >= 2 /\ SubSeq(content, 1, 2) = "\r\n"
    THEN <<line>> \o SplitLines(SubSeq(content, 3, Len(content)), "")
    ELSE IF SubSeq(content, 1, 1) \in {"\n", "\r"}
    THEN <<line>> \o SplitLines(SubSeq(content, 2, Len(content)), "")
    ELSE SplitLines(SubSeq(content, 2, Len(content)), line \o SubSeq(content, 1, 1))

\* f"{line_number:6d}"
RECURSIVE PadLeft(_, _)
PadLeft(str, width) == IF Len(str) >= width THEN str ELSE PadLeft(" " \o str, width)

\* Lines 141-147: one line of the output.
NumberedLine_NoNumber(i, line) ==
    IF Len(line) > MaxLineChars THEN SubSeq(line, 1, MaxLineChars) ELSE line

NumberedLine(i, line) ==
    PadLeft(ToString(i), 6) \o "\t"
        \o (IF Len(line) > MaxLineChars THEN SubSeq(line, 1, MaxLineChars) ELSE line)

\* `old_string in content`
Contains(content, old_string) ==
    \E i \in 1..(Len(content) + 1) :
        i + Len(old_string) - 1 <= Len(content)
        /\ SubSeq(content, i, i + Len(old_string) - 1) = old_string

\* str.count: occurrences that do not overlap, from the left.
RECURSIVE Count(_, _)
Count(content, old_string) ==
    IF old_string = "" THEN Len(content) + 1
    ELSE IF Len(content) < Len(old_string) THEN 0
    ELSE IF SubSeq(content, 1, Len(old_string)) = old_string
    THEN 1 + Count(SubSeq(content, Len(old_string) + 1, Len(content)), old_string)
    ELSE Count(SubSeq(content, 2, Len(content)), old_string)

\* str.replace(old_string, new_string, count); count < 0 replaces all.
RECURSIVE Replace(_, _, _, _)
Replace(content, old_string, new_string, count) ==
    IF count = 0 THEN content
    ELSE IF old_string = ""
    THEN (IF Len(content) = 0 THEN new_string
          ELSE new_string \o SubSeq(content, 1, 1)
                 \o Replace(SubSeq(content, 2, Len(content)), old_string, new_string,
                            count - 1))
    ELSE IF Len(content) < Len(old_string) THEN content
    ELSE IF SubSeq(content, 1, Len(old_string)) = old_string
    THEN new_string \o Replace(SubSeq(content, Len(old_string) + 1, Len(content)),
                               old_string, new_string, count - 1)
    ELSE SubSeq(content, 1, 1)
            \o Replace(SubSeq(content, 2, Len(content)), old_string, new_string, count)

\* Lines 252-254: the replacement edit_file makes without replace_all.
ReplaceOnce_All(content, old_string, new_string) ==
    Replace(content, old_string, new_string, -1)

ReplaceOnce(content, old_string, new_string) ==
    Replace(content, old_string, new_string, 1)

\* The order of str: by code point, over the characters keys are made of.
CodePoints == " ./0123456789abcdefghijklmnopqrstuvwxyz"
CodePoint(ch) == CHOOSE i \in 1..Len(CodePoints) : SubSeq(CodePoints, i, i) = ch

RECURSIVE StrLess(_, _)
StrLess(a, b) ==
    IF Len(b) = 0 THEN FALSE
    ELSE IF Len(a) = 0 THEN TRUE
    ELSE IF SubSeq(a, 1, 1) = SubSeq(b, 1, 1)
    THEN StrLess(SubSeq(a, 2, Len(a)), SubSeq(b, 2, Len(b)))
    ELSE CodePoint(SubSeq(a, 1, 1)) < CodePoint(SubSeq(b, 1, 1))

\* sorted(keys)
RECURSIVE Sorted(_)
Sorted(keys) ==
    IF keys = {} THEN <<>>
    ELSE LET least == CHOOSE k \in keys : \A other \in keys \ {k} : StrLess(k, other)
         IN  <<least>> \o Sorted(keys \ {least})

FilesKeys(mapping) == {k \in FsKeys : mapping[k] # None}

EmptyReminder == "System reminder: File exists but has empty contents"

\* read_file, lines 115-149, on the content found for the key.
RenderContent(content, offset, limit) ==
    IF content = "" \/ Strip(content) = "" THEN EmptyReminder
    ELSE LET lines == SplitLines(content, "")
             end_idx == Min(offset + limit, Len(lines))
         IN  IF offset >= Len(lines)
             THEN "Error: Line offset " \o ToString(offset) \o " exceeds file length ("
                    \o ToString(Len(lines)) \o " lines)"
             ELSE JoinWith([i \in 1..(end_idx - offset) |->
                               NumberedLine(offset + i, lines[offset + i])], "\n")

NoChange == [tool |-> "", file_path |-> "", before |-> "", content |-> "",
             old_string |-> "", new_string |-> "", replace_all |-> FALSE]

NoToolCall == [tool |-> "", file_path |-> "", offset |-> 0, limit |-> 0, ok |-> FALSE,
               output |-> "", listing |-> <<>>]

ToolCalled(tool, file_path, offset, limit, ok, output, listing) ==
    fs_last' = [tool |-> tool, file_path |-> file_path, offset |-> offset,
                limit |-> limit, ok |-> ok, output |-> output, listing |-> listing]

FsInit ==
    /\ files = [k \in FsKeys |-> None]
    /\ disk \in {[k \in FsKeys |-> None],
                 [k \in FsKeys |-> IF k = "b.txt" THEN Some("ab\nc") ELSE None]}
    /\ disk_writable \in BOOLEAN
    /\ fs_ops = 0
    /\ fs_change = NoChange
    /\ fs_last = NoToolCall

FsIdle ==
    /\ files = [k \in FsKeys |-> None]
    /\ disk = [k \in FsKeys |-> None]
    /\ disk_writable = TRUE
    /\ fs_ops = 0
    /\ fs_change = NoChange
    /\ fs_last = NoToolCall

\* ls
Ls ==
    /\ fs_ops < MaxFsOps
    /\ fs_ops' = fs_ops + 1
    /\ ToolCalled("ls", "", 0, 0, TRUE, "", Sorted(FilesKeys(files)))
    /\ UNCHANGED <<files, disk, disk_writable, fs_change>>
    /\ UNCHANGED notFsVars

\* read_file
ReadFile(file_path, offset, limit) ==
    /\ fs_ops < MaxFsOps
    /\ fs_ops' = fs_ops + 1
    /\ UNCHANGED <<disk, disk_writable, fs_change>>
    /\ UNCHANGED notFsVars
    /\ LET path == ResolvePath(file_path)
       IN  IF path.error # ""
           THEN /\ ToolCalled("read_file", file_path, offset, limit, FALSE, path.error, <<>>)
                /\ UNCHANGED files
           ELSE IF files[path.key] = None /\ disk[path.key] = None
           THEN /\ ToolCalled("read_file", file_path, offset, limit, FALSE,
                              "Error: File '" \o path.resolved \o "' not found", <<>>)
                /\ UNCHANGED files
           ELSE LET content == IF files[path.key] = None THEN disk[path.key][1]
                               ELSE files[path.key][1]
                IN  /\ files' = [files EXCEPT ![path.key] = Some(content)]
                    /\ ToolCalled("read_file", file_path, offset, limit, TRUE,
                                  RenderContent(content, offset, limit), <<>>)

\* The errors a write to the workspace directory may raise when it is not
\* writable: errno and the system's message.
OSErrors == {[errno |-> 13, strerror |-> "Permission denied"],
             [errno |-> 30, strerror |-> "Read-only file system"]}

\* {exc} (lines 186, 267): the text of an OSError raised for a file
OSErrorText(exc, filename) ==
    "[Errno " \o ToString(exc.errno) \o "] " \o exc.strerror \o ": '" \o filename \o "'"

\* write_file, with its update applied to the state.
WriteFile(file_path, content) ==
    /\ fs_ops < MaxFsOps
    /\ fs_ops' = fs_ops + 1
    /\ UNCHANGED disk_writable
    /\ UNCHANGED notFsVars
    /\ LET path == ResolvePath(file_path)
       IN  IF path.error # ""
           THEN /\ ToolCalled("write_file", file_path, 0, 0, FALSE, path.error, <<>>)
                /\ UNCHANGED <<files, disk, fs_change>>
           ELSE IF ~disk_writable
           THEN /\ \E exc \in OSErrors :
                    ToolCalled("write_file", file_path, 0, 0, FALSE,
                               "Error: Unable to write file '" \o path.resolved \o "': "
                                  \o OSErrorText(exc, path.resolved), <<>>)
                /\ UNCHANGED <<files, disk, fs_change>>
           ELSE /\ disk' = [disk EXCEPT ![path.key] = Some(content)]
                /\ files' = [files EXCEPT ![path.key] = Some(content)]
                /\ ToolCalled("write_file", file_path, 0, 0, TRUE,
                              "Updated file " \o path.resolved, <<>>)
                /\ fs_change' = [tool |-> "write_file", file_path |-> file_path,
                                 before |-> "", content |-> content, old_string |-> "",
                                 new_string |-> "", replace_all |-> FALSE]

\* edit_file, with its update applied to the state.  The new content is put
\* into the mapping before the write to disk (line 258): when the write fails
\* and the state already had files, the state keeps the new content.
\* edit_file, lines 239-242: the message for an old_string that is not unique
AmbiguousError(old_string, occurrences) ==
    "Error: String '" \o old_string \o "' appears " \o ToString(occurrences)
    \o " times in file. Use replace_all=True to replace all instances, or provide"
    \o " a more specific string with surrounding context."

Ambiguous_Never(replace_all, occurrences) == FALSE

\* edit_file, lines 239-241: the uniqueness check
Ambiguous(replace_all, occurrences) == ~replace_all /\ occurrences > 1

EditFile(file_path, old_string, new_string, replace_all) ==
    /\ fs_ops < MaxFsOps
    /\ fs_ops' = fs_ops + 1
    /\ UNCHANGED disk_writable
    /\ UNCHANGED notFsVars
    /\ LET path == ResolvePath(file_path)
       IN  IF path.error # ""
           THEN /\ ToolCalled("edit_file", file_path, 0, 0, FALSE, path.error, <<>>)
                /\ UNCHANGED <<files, disk, fs_change>>
           ELSE IF files[path.key] = None /\ disk[path.key] = None
           THEN /\ ToolCalled("edit_file", file_path, 0, 0, FALSE,
                              "Error: File '" \o path.resolved \o "' not found", <<>>)
                /\ UNCHANGED <<files, disk, fs_change>>
           ELSE LET shared == FilesKeys(files) # {}
                    content == IF files[path.key] = None THEN disk[path.key][1]
                               ELSE files[path.key][1]
                    loaded == IF shared THEN [files EXCEPT ![path.key] = Some(content)]
                              ELSE files
                    occurrences == Count(content, old_string)
                    new_content == IF replace_all
                                   THEN Replace(content, old_string, new_string, -1)
                                   ELSE ReplaceOnce(content, old_string, new_string)
                IN  IF ~Contains(content, old_string)
                    THEN /\ ToolCalled("edit_file", file_path, 0, 0, FALSE,
                                       "Error: String not found in file: '" \o old_string
                                          \o "'", <<>>)
                         /\ files' = loaded
                         /\ UNCHANGED <<disk, fs_change>>
                    ELSE IF Ambiguous(replace_all, occurrences)
                    THEN /\ ToolCalled("edit_file", file_path, 0, 0, FALSE,
                                       AmbiguousError(old_string, occurrences), <<>>)
                         /\ files' = loaded
                         /\ UNCHANGED <<disk, fs_change>>
                    ELSE IF ~disk_writable
                    THEN /\ \E exc \in OSErrors :
                             ToolCalled("edit_file", file_path, 0, 0, FALSE,
                                        "Error: Unable to write updates to '"
                                           \o path.resolved \o "': "
                                           \o OSErrorText(exc, path.resolved), <<>>)
                         /\ files' = IF shared
                                     THEN [files EXCEPT ![path.key] = Some(new_content)]
                                     ELSE files
                         /\ UNCHANGED <<disk, fs_change>>
                    ELSE /\ disk' = [disk EXCEPT ![path.key] = Some(new_content)]
                         /\ files' = [files EXCEPT ![path.key] = Some(new_content)]
                         /\ ToolCalled("edit_file", file_path, 0, 0, TRUE,
                                       IF replace_all
                                       THEN "Successfully replaced " \o ToString(occurrences)
                                              \o " instance(s) of the string in '"
                                              \o file_path \o "'"
                                       ELSE "Successfully replaced string in '"
                                              \o file_path \o "'", <<>>)
                         /\ fs_change' = [tool |-> "edit_file", file_path |-> file_path,
                                          before |-> content, content |-> new_content,
                                          old_string |-> old_string,
                                          new_string |-> new_string,
                                          replace_all |-> replace_all]

FsNext ==
    \/ Ls
    \/ \E file_path \in FsPaths, offset \in {0, 1}, limit \in {1, DefaultLimit} :
          ReadFile(file_path, offset, limit)
    \/ \E file_path \in FsPaths, content \in FsContents : WriteFile(file_path, content)
    \/ \E file_path \in FsPaths, old_string \in OldStrings, new_string \in NewStrings,
          replace_all \in BOOLEAN :
          EditFile(file_path, old_string, new_string, replace_all)

(***************************************************************************)
(* Adaptive summarization                                                  *)
(*                                                                         *)
(* AdaptiveSummarizationMiddleware._enforce_budget (summarization.py).  A  *)
(* message is a record; message identifiers are left out, they do not      *)
(* enter the token count.  Indices are 1-based, and 0 stands for "no       *)
(* index" (None).  The texts the summarizing model answers with are an     *)
(* input: the k-th call of _create_summary answers summaries[k], and calls *)
(* beyond the last entry repeat it.                                        *)
(***************************************************************************)

MaxHistory == 3
MaxSummaries == 2
ApproxCharsPerToken10 == 32       \* approx_chars_per_token = 3.2, times ten
TokenBudgetMargin10 == 2          \* token_budget_margin = 0.2, times ten
DefaultMinReservedTokens == 768
ExtraTokensPerMessage == 3
MinTruncatedChars == 32

\* A message as it is constructed: without a name and without an identifier
\* ("" stands for None).
Message(type, content, tool_calls, tool_call_id) ==
    [type |-> type, content |-> content, tool_calls |-> tool_calls,
     tool_call_id |-> tool_call_id, context_truncated |-> FALSE,
     name |-> "", id |-> ""]

\* The message with its name attribute set.
Named(message, name) == [message EXCEPT !.name = name]

ToolCallTo(id) == [name |-> "ls", id |-> id]

LongText ==
    "Compare the three proposals in detail and " \o
    "list every assumption that each of them makes " \o
    "about cost, schedule, staffing and risk, then " \o
    "say which of them you would recommend and why, " \o
    "with references to the source documents that " \o
    "support each point you make."

SummaryPrefix == "Here is a summary of the conversation to date:\n\n"

\* What _create_summary answers for an empty list.
NoHistorySummary == "No previous conversation history."

\* The messages histories are made of; the last is equal to the summary
\* message the middleware builds for an empty history.
MessagePool ==
    { Message("human", "hi", <<>>, ""),
      Named(Message("human", "hi", <<>>, ""), "alice"),
      Message("human", LongText, <<>>, ""),
      Message("ai", "done", <<>>, ""),
      Message("ai", "", <<ToolCallTo("a")>>, ""),
      Message("ai", "", <<ToolCallTo("a"), ToolCallTo("b")>>, ""),
      Message("tool", "ok", <<>>, "a"),
      Message("tool", "ok", <<>>, "b"),
      Message("human", SummaryPrefix \o NoHistorySummary, <<>>, "") }

Histories == UNION {[1..n -> MessagePool] : n \in 0..MaxHistory}

\* What the summarizing model may answer.
SummaryTexts == {"ok", "Previous conversation was too long to summarize."}

SummaryScripts == UNION {[1..n -> SummaryTexts] : n \in 1..MaxSummaries}

\* max_tokens_before_summary, min_reserved_tokens
Budgets == {29, 48, 72}
MinReservedTokens == {DefaultMinReservedTokens, 6}

\* math.ceil(a / b) for a >= 0, b > 0
CeilDiv(a, b) == (a + b - 1) \div b

\* _get_message_openai_role
Role(message) ==
    CASE message.type = "human" -> "user"
      [] message.type = "ai" -> "assistant"
      [] message.type = "tool" -> "tool"

\* repr() of one tool call and of message.tool_calls
ReprToolCall(tc) ==
    "{'name': '" \o tc.name \o "', 'args': {}, 'id': '" \o tc.id \o
    "', 'type': 'tool_call'}"

ReprToolCalls(tool_calls) ==
    "[" \o JoinWith([i \in DOMAIN tool_calls |-> ReprToolCall(tool_calls[i])], ", ") \o "]"

IsToolCalling(message) == message.type = "ai" /\ message.tool_calls # <<>>

\* count_tokens_approximately, the characters of one message
MessageChars(message) ==
    Len(message.content)
    + (IF IsToolCalling(message) THEN Len(ReprToolCalls(message.tool_calls)) ELSE 0)
    + (IF message.type = "tool" THEN Len(message.tool_call_id) ELSE 0)
    + Len(Role(message))
    + Len(message.name)

\* self.token_counter: count_tokens_approximately with chars_per_token = 3.2
RECURSIVE TokenCounter(_)
TokenCounter(messages) ==
    IF messages = <<>> THEN 0
    ELSE CeilDiv(MessageChars(Head(messages)) * 10, ApproxCharsPerToken10)
         + ExtraTokensPerMessage + TokenCounter(Tail(messages))

\* _extract_tool_call_ids
ExtractToolCallIds(message) ==
    {message.tool_calls[i].id : i \in DOMAIN message.tool_calls}

\* _find_last_human_index
FindLastHumanIndex(messages) ==
    LET humans == {i \in DOMAIN messages : messages[i].type = "human"}
    IN  IF humans = {} THEN 0
        ELSE CHOOSE i \in humans : \A j \in humans : j <= i

\* _max_preservable_tokens
MaxPreservableTokens(max_tokens_before_summary, min_reserved_tokens) ==
    LET reserved == Max(min_reserved_tokens,
                        (max_tokens_before_summary * TokenBudgetMargin10) \div 10)
        baseline == Max(max_tokens_before_summary \div 2, 1)
    IN  Max(max_tokens_before_summary - reserved, baseline)

\* index of the last blank of s at or before i, 0 if there is none
RECURSIVE LastBlank(_, _)
LastBlank(s, i) ==
    IF i = 0 THEN 0
    ELSE IF SubSeq(s, i, i) = " " THEN i ELSE LastBlank(s, i - 1)

\* s.rsplit(" ", 1)[0]
BeforeLastBlank(s) ==
    LET i == LastBlank(s, Len(s))
    IN  IF i = 0 THEN s ELSE SubSeq(s, 1, i - 1)

TruncationNotice(omitted) ==
    "\n\n[Context truncated to preserve window. Omitted approximately "
    \o ToString(omitted) \o " characters.]"

\* _truncate_if_needed
TruncateIfNeeded(message, target_tokens) ==
    LET target == Max(target_tokens, 1)
        content_text == message.content
        max_chars == Max((target * ApproxCharsPerToken10) \div 10, MinTruncatedChars)
        head == SubSeq(content_text, 1, Min(max_chars, Len(content_text)))
        stripped == Strip(BeforeLastBlank(head))
        truncated == IF stripped = "" THEN head ELSE stripped
        omitted == Len(content_text) - Len(truncated)
    IN  IF TokenCounter(<<message>>) <= target THEN message
        ELSE IF content_text = "" THEN message
        ELSE [message EXCEPT !.content = truncated \o TruncationNotice(omitted),
                             !.context_truncated = TRUE]

\* preserve_flags with the flags at `indices` set to `value`
SetFlags(preserve_flags, indices, value) ==
    [i \in DOMAIN preserve_flags |->
        IF i \in Range(indices) THEN value ELSE preserve_flags[i]]

\* messages with the message at idx replaced
Replaced(messages, idx, message) ==
    [i \in DOMAIN messages |-> IF i = idx THEN message ELSE messages[i]]

\* the loop of _enforce_budget over idx = len - 1 .. 0
RECURSIVE MarkPreserved(_, _, _, _, _)
MarkPreserved(messages, idx, preserve_flags, tokens_reserved, available_budget) ==
    IF idx = 0 THEN preserve_flags
    ELSE IF preserve_flags[idx]
    THEN MarkPreserved(messages, idx - 1, preserve_flags, tokens_reserved,
                       available_budget)
    ELSE LET message_tokens == TokenCounter(<<messages[idx]>>)
         IN  IF tokens_reserved + message_tokens <= available_budget
             THEN MarkPreserved(messages, idx - 1,
                                SetFlags(preserve_flags, <<idx>>, TRUE),
                                tokens_reserved + message_tokens, available_budget)
             ELSE MarkPreserved(messages, idx - 1, preserve_flags, tokens_reserved,
                                available_budget)

\* the inner while loop of _collect_message_clusters, from position j
RECURSIVE ClaimToolResults(_, _, _, _)
ClaimToolResults(messages, j, cluster_indices, missing_ids) ==
    IF j > Len(messages) \/ missing_ids = {}
    THEN [indices |-> cluster_indices, missing |-> missing_ids]
    ELSE IF messages[j].type = "tool"
    THEN IF messages[j].tool_call_id \in missing_ids
         THEN ClaimToolResults(messages, j + 1, Append(cluster_indices, j),
                               missing_ids \ {messages[j].tool_call_id})
         ELSE ClaimToolResults(messages, j + 1, cluster_indices, missing_ids)
    ELSE [indices |-> cluster_indices, missing |-> missing_ids]

RECURSIVE CollectFrom(_, _, _, _)
CollectFrom(messages, idx, visited, clusters) ==
    IF idx > Len(messages) THEN clusters
    ELSE IF idx \in visited THEN CollectFrom(messages, idx + 1, visited, clusters)
    ELSE IF IsToolCalling(messages[idx])
    THEN LET cluster == ClaimToolResults(messages, idx + 1, <<idx>>,
                                         ExtractToolCallIds(messages[idx]))
         IN  CollectFrom(messages, idx + 1, visited \cup Range(cluster.indices),
                         Append(clusters, cluster))
    ELSE CollectFrom(messages, idx + 1, visited \cup {idx},
                     Append(clusters, [indices |-> <<idx>>, missing |-> {}]))

\* _collect_message_clusters; clusters are built in the order of their first
\* index and each cluster's indices in increasing order, so both sorts keep
\* the order
CollectMessageClusters(messages) == CollectFrom(messages, 1, {}, <<>>)

\* _synchronize_tool_preservation
RECURSIVE SynchronizeToolPreservation(_, _)
SynchronizeToolPreservation(clusters, preserve_flags) ==
    IF clusters = <<>> THEN preserve_flags
    ELSE LET indices == Head(clusters).indices
             should_preserve == \E idx \in Range(indices) : preserve_flags[idx]
             all_preserved == \A idx \in Range(indices) : preserve_flags[idx]
             flags == IF Head(clusters).missing # {}
                      THEN SetFlags(preserve_flags, indices, FALSE)
                      ELSE IF should_preserve # all_preserved
                      THEN SetFlags(preserve_flags, indices, should_preserve)
                      ELSE preserve_flags
         IN  SynchronizeToolPreservation(Tail(clusters), flags)

\* _select_drop_cluster: the indices of the cluster to drop, <<>> for None
RECURSIVE SelectDropCluster_AnyCluster(_, _, _)
SelectDropCluster_AnyCluster(clusters, preserve_flags, last_human_idx) ==
    IF clusters = <<>> THEN <<>>
    ELSE LET indices == Head(clusters).indices
         IN  IF Head(clusters).missing # {}
             THEN SelectDropCluster_AnyCluster(Tail(clusters), preserve_flags,
                                               last_human_idx)
             ELSE IF \A idx \in Range(indices) : preserve_flags[idx]
             THEN indices
             ELSE SelectDropCluster_AnyCluster(Tail(clusters), preserve_flags,
                                               last_human_idx)

RECURSIVE SelectDropCluster_Newest(_, _, _)
SelectDropCluster_Newest(clusters, preserve_flags, last_human_idx) ==
    IF clusters = <<>> THEN <<>>
    ELSE LET indices == Head(clusters).indices
             later == SelectDropCluster_Newest(Tail(clusters), preserve_flags,
                                               last_human_idx)
         IN  IF later # <<>> THEN later
             ELSE IF Head(clusters).missing # {} THEN <<>>
             ELSE IF last_human_idx # 0 /\ last_human_idx \in Range(indices) THEN <<>>
             ELSE IF \A idx \in Range(indices) : preserve_flags[idx] THEN indices
             ELSE <<>>

RECURSIVE SelectDropCluster(_, _, _)
SelectDropCluster(clusters, preserve_flags, last_human_idx) ==
    IF clusters = <<>> THEN <<>>
    ELSE LET indices == Head(clusters).indices
         IN  IF Head(clusters).missing # {}
             THEN SelectDropCluster(Tail(clusters), preserve_flags, last_human_idx)
             ELSE IF last_human_idx # 0 /\ last_human_idx \in Range(indices)
             THEN SelectDropCluster(Tail(clusters), preserve_flags, last_human_idx)
             ELSE IF \A idx \in Range(indices) : preserve_flags[idx]
             THEN indices
             ELSE SelectDropCluster(Tail(clusters), preserve_flags, last_human_idx)

\* _create_summary, as its call number `calls`
CreateSummary(messages_to_summarize, summaries, calls) ==
    IF messages_to_summarize = <<>> THEN NoHistorySummary
    ELSE summaries[Min(calls, Len(summaries))]

\* _build_new_messages
BuildNewMessages(summary) == <<Message("human", SummaryPrefix \o summary, <<>>, "")>>

\* the messages whose flag is `value`, in order
RECURSIVE Kept(_, _, _)
Kept(messages, preserve_flags, value) ==
    IF messages = <<>> THEN <<>>
    ELSE (IF Head(preserve_flags) = value THEN <<Head(messages)>> ELSE <<>>)
         \o Kept(Tail(messages), Tail(preserve_flags), value)

\* _assemble_messages; calls counts the _create_summary calls made before
Assembled(current, calls) == [current |-> current, calls |-> calls]

AssembleMessages(normalized_messages, preserve_flags, summaries, calls) ==
    LET summary_source == Kept(normalized_messages, preserve_flags, FALSE)
        preserved_messages == Kept(normalized_messages, preserve_flags, TRUE)
    IN  IF summary_source # <<>>
        THEN Assembled(BuildNewMessages(CreateSummary(summary_source, summaries,
                                                      calls + 1))
                       \o preserved_messages, calls + 1)
        ELSE Assembled(preserved_messages, calls)

\* the while loop of _rebalance_until_within_budget
RECURSIVE DropUntilWithinBudget(_, _, _, _, _, _)
DropUntilWithinBudget(normalized_messages, preserve_flags, last_human_idx, max_tokens_before_summary, summaries, assembled) ==
    LET clusters == CollectMessageClusters(normalized_messages)
        drop_cluster == SelectDropCluster(clusters, preserve_flags, last_human_idx)
        flags == SynchronizeToolPreservation(
                     clusters, SetFlags(preserve_flags, drop_cluster, FALSE))
    IN  IF TokenCounter(assembled.current) > max_tokens_before_summary
           /\ drop_cluster # <<>>
        THEN DropUntilWithinBudget(normalized_messages, flags, last_human_idx,
                                   max_tokens_before_summary, summaries,
                                   AssembleMessages(normalized_messages, flags,
                                                    summaries, assembled.calls))
        ELSE [flags |-> preserve_flags, current |-> assembled.current,
              calls |-> assembled.calls]

Collapse_KeepTrailing(summary_messages, trailing_messages, max_tokens_before_summary) ==
    summary_messages \o trailing_messages

\* the fallback of _rebalance_until_within_budget
Collapse(summary_messages, trailing_messages, max_tokens_before_summary) ==
    IF TokenCounter(summary_messages \o trailing_messages) > max_tokens_before_summary
       /\ trailing_messages # <<>>
    THEN summary_messages
    ELSE summary_messages \o trailing_messages

Without(messages, idx) ==
    SubSeq(messages, 1, idx - 1) \o SubSeq(messages, idx + 1, Len(messages))

\* _rebalance_until_within_budget after its while loop (lines 318-352);
\* dropped is the state the loop ended in
AfterLoop(normalized_messages, dropped, last_human_idx, max_tokens_before_summary, min_reserved_tokens, summaries) ==
    LET truncates == last_human_idx # 0 /\ dropped.flags[last_human_idx]
        messages2 ==
            IF truncates
            THEN Replaced(normalized_messages, last_human_idx,
                          TruncateIfNeeded(normalized_messages[last_human_idx],
                                           Max(min_reserved_tokens,
                                               max_tokens_before_summary \div 4)))
            ELSE normalized_messages
        flags2 == SynchronizeToolPreservation(CollectMessageClusters(messages2),
                                              dropped.flags)
        rebuilt == AssembleMessages(messages2, flags2, summaries, dropped.calls)
        calls2 == IF truncates THEN rebuilt.calls ELSE dropped.calls
        trailing_messages ==
            IF last_human_idx # 0 THEN <<messages2[last_human_idx]>> ELSE <<>>
        summary_source ==
            IF last_human_idx # 0 THEN Without(messages2, last_human_idx) ELSE messages2
    IN  IF TokenCounter(dropped.current) <= max_tokens_before_summary
        THEN dropped.current
        ELSE IF truncates /\ TokenCounter(rebuilt.current) <= max_tokens_before_summary
        THEN rebuilt.current
        ELSE Collapse(BuildNewMessages(CreateSummary(summary_source, summaries,
                                                     calls2 + 1)),
                      trailing_messages, max_tokens_before_summary)

\* _rebalance_until_within_budget
RebalanceUntilWithinBudget(normalized_messages, preserve_flags, last_human_idx, max_tokens_before_summary, min_reserved_tokens, summaries) ==
    LET flags0 == SynchronizeToolPreservation(
                      CollectMessageClusters(normalized_messages), preserve_flags)
    IN  AfterLoop(normalized_messages,
                  DropUntilWithinBudget(
                      normalized_messages, flags0, last_human_idx,
                      max_tokens_before_summary, summaries,
                      AssembleMessages(normalized_messages, flags0, summaries, 0)),
                  last_human_idx, max_tokens_before_summary, min_reserved_tokens,
                  summaries)

DropOrphanToolPairs_Keep(messages) == messages

\* _drop_orphan_tool_pairs; cluster_start_index is -1 for None
RECURSIVE DropOrphansFrom(_, _, _, _)
DropOrphansFrom(messages, cleaned, pending_tool_ids, cluster_start_index) ==
    LET open == pending_tool_ids # {} /\ cluster_start_index # -1
        cut == IF open THEN SubSeq(cleaned, 1, cluster_start_index) ELSE cleaned
        message == Head(messages)
    IN  IF messages = <<>> THEN cut
        ELSE IF IsToolCalling(message)
        THEN DropOrphansFrom(Tail(messages), Append(cut, message),
                             ExtractToolCallIds(message),
                             IF ExtractToolCallIds(message) = {} THEN -1 ELSE Len(cut))
        ELSE IF message.type = "tool"
        THEN IF pending_tool_ids # {} /\ message.tool_call_id \in pending_tool_ids
             THEN DropOrphansFrom(Tail(messages), Append(cleaned, message),
                                  pending_tool_ids \ {message.tool_call_id},
                                  IF pending_tool_ids = {message.tool_call_id}
                                  THEN -1 ELSE cluster_start_index)
             ELSE DropOrphansFrom(Tail(messages), cleaned, pending_tool_ids,
                                  cluster_start_index)
        ELSE DropOrphansFrom(Tail(messages), Append(cut, message), {}, -1)

DropOrphanToolPairs(messages) == DropOrphansFrom(messages, <<>>, {}, -1)

\* self._ensure_message_ids (line 290): every message without an identifier is
\* given a fresh one, in list order; "uuid-1", "uuid-2", ... stand for the
\* values of uuid4.
EnsureMessageIds(messages) ==
    [i \in DOMAIN messages |->
        IF messages[i].id # "" THEN messages[i]
        ELSE [messages[i] EXCEPT
                 !.id = "uuid-" \o ToString(Cardinality({j \in 1..i :
                                                            messages[j].id = ""}))]]

\* what _enforce_budget returns
Enforced(messages, changed) == [messages |-> messages, changed |-> changed]

\* The message objects.  A message of the handed-in list is followed through
\* _enforce_budget with the place it has in that list (obj); the summary
\* messages that _build_new_messages constructs are new objects and carry no
\* place.  _truncate_if_needed returns either the message itself or a copy
\* with other content (model_copy, line 524), so a message that carries place
\* i is the caller's own object exactly when it still equals the i-th
\* handed-in message.
Tagged(message, obj) ==
    [type |-> message.type, content |-> message.content,
     tool_calls |-> message.tool_calls, tool_call_id |-> message.tool_call_id,
     context_truncated |-> message.context_truncated, name |-> message.name,
     id |-> message.id, obj |-> obj]

Untagged(message) ==
    [type |-> message.type, content |-> message.content,
     tool_calls |-> message.tool_calls, tool_call_id |-> message.tool_call_id,
     context_truncated |-> message.context_truncated, name |-> message.name,
     id |-> message.id]

ObjOf(message) == IF "obj" \in DOMAIN message THEN message.obj ELSE 0

TaggedMessages(messages) == [i \in DOMAIN messages |-> Tagged(messages[i], i)]

UntaggedMessages(messages) == [i \in DOMAIN messages |-> Untagged(messages[i])]

\* Lines 290-291: the identifiers are written into the message objects of the
\* balanced list, so a handed-in message that the list keeps has its
\* identifier afterwards in the caller's list too, while a copy or a summary
\* message gets an identifier the caller's list does not see; the comparison
\* with the handed-in list is made after that.  enforced: what the call
\* returns; messages: the handed-in list after the call.
AssignIdsAndCompare(messages, balanced_messages) ==
    LET with_ids == EnsureMessageIds(balanced_messages)
        Own(k, i) == /\ ObjOf(balanced_messages[k]) = i
                     /\ Untagged(balanced_messages[k]) = messages[i]
        handed_in == [i \in DOMAIN messages |->
                         IF \E k \in DOMAIN balanced_messages : Own(k, i)
                         THEN Untagged(with_ids[CHOOSE k \in DOMAIN balanced_messages :
                                                    Own(k, i)])
                         ELSE messages[i]]
        returned == UntaggedMessages(with_ids)
    IN  [enforced |-> Enforced(returned, returned # handed_in), messages |-> handed_in]

\* _enforce_budget, for a history without RemoveMessage entries (before_model
\* has taken them out) and a budget that is set: what it returns and what it
\* leaves of the handed-in list.  The early returns (lines 252-257) assign no
\* identifier.
EnforceBudgetCall(messages, max_tokens_before_summary, min_reserved_tokens, summaries) ==
    LET last_human_idx == FindLastHumanIndex(messages)
        available_budget == MaxPreservableTokens(max_tokens_before_summary,
                                                 min_reserved_tokens)
        pruned_messages == TaggedMessages(messages)
        normalized_messages ==
            IF last_human_idx # 0
            THEN Replaced(pruned_messages, last_human_idx,
                          TruncateIfNeeded(pruned_messages[last_human_idx],
                                           available_budget))
            ELSE pruned_messages
        tokens_reserved ==
            IF last_human_idx # 0
            THEN TokenCounter(<<normalized_messages[last_human_idx]>>) ELSE 0
        preserve_flags ==
            MarkPreserved(normalized_messages, Len(normalized_messages),
                          [i \in DOMAIN messages |-> i = last_human_idx],
                          tokens_reserved, available_budget)
        balanced_messages ==
            DropOrphanToolPairs(
                RebalanceUntilWithinBudget(normalized_messages, preserve_flags,
                                           last_human_idx, max_tokens_before_summary,
                                           min_reserved_tokens, summaries))
    IN  IF TokenCounter(messages) <= max_tokens_before_summary \/ messages = <<>>
        THEN [enforced |-> Enforced(messages, FALSE), messages |-> messages]
        ELSE AssignIdsAndCompare(messages, balanced_messages)

\* The pair _enforce_budget returns.
EnforceBudget(messages, max_tokens_before_summary, min_reserved_tokens, summaries) ==
    EnforceBudgetCall(messages, max_tokens_before_summary, min_reserved_tokens,
                      summaries).enforced

NoResult == Enforced(<<>>, FALSE)

SummInit ==
    /\ summ_messages \in Histories
    /\ summ_max_tokens \in Budgets
    /\ summ_min_reserved \in MinReservedTokens
    /\ summ_summaries \in SummaryScripts
    /\ summ_pc = "ready"
    /\ summ_result = NoResult
    /\ summ_base = None
    /\ summ_update = None
    /\ summ_after = <<>>
    /\ reb_normalized = <<>>
    /\ reb_flags = <<>>
    /\ reb_assembled = Assembled(<<>>, 0)
    /\ reb_dropped = <<>>
    /\ reb_iterations = 0

SummIdle ==
    /\ summ_messages = <<>>
    /\ summ_max_tokens = 29
    /\ summ_min_reserved = DefaultMinReservedTokens
    /\ summ_summaries = <<"ok">>
    /\ summ_pc = "idle"
    /\ summ_result = NoResult
    /\ summ_base = None
    /\ summ_update = None
    /\ summ_after = <<>>
    /\ reb_normalized = <<>>
    /\ reb_flags = <<>>
    /\ reb_assembled = Assembled(<<>>, 0)
    /\ reb_dropped = <<>>
    /\ reb_iterations = 0

\* before_model, line 234: the call of _enforce_budget on the content messages
CallEnforceBudget ==
    /\ summ_pc = "ready"
    /\ LET returned == EnforceBudgetCall(summ_messages, summ_max_tokens,
                                         summ_min_reserved, summ_summaries)
       IN  /\ summ_result' = returned.enforced
           /\ summ_messages' = returned.messages
    /\ summ_pc' = "returned"
    /\ UNCHANGED <<summ_max_tokens, summ_min_reserved, summ_summaries>>
    /\ UNCHANGED <<summ_base, summ_update, summ_after>>
    /\ UNCHANGED <<reb_normalized, reb_flags, reb_assembled, reb_dropped, reb_iterations>>
    /\ UNCHANGED notSummVars

SummNext == CallEnforceBudget

\* RemoveMessage(id=REMOVE_ALL_MESSAGES), the sentinel of a full replacement
RemoveAllSentinel == [type |-> "remove", id |-> "__remove_all__"]

IsRemoveMessage(msg) == msg.type = "remove"

\* The identifier of a message; "" for a message built without one.
MessageId(msg) == msg.id

WithMessageId(msg, id) == [msg EXCEPT !.id = id]

\* The history as the graph state holds it: every message carries its identifier.
StateMessages(messages) ==
    [i \in DOMAIN messages |-> WithMessageId(messages[i], "m" \o ToString(i))]

\* The scripted answers left to the summarising model after its first call.
AfterFirstSummary(summaries) == IF Len(summaries) > 1 THEN Tail(summaries) ELSE summaries

\* The base pass, super().before_model: either no update (cutoff 0), or a full
\* replacement that summarises the first cutoff messages and keeps the rest.
BasePass(messages, cutoff, summaries) ==
    IF cutoff = 0 THEN None
    ELSE Some(<<RemoveAllSentinel>>
              \o BuildNewMessages(CreateSummary(SubSeq(messages, 1, cutoff), summaries, 1))
              \o SubSeq(messages, cutoff + 1, Len(messages)))

Filtered(messages, Keep(_)) ==
    LET F[i \in 0..Len(messages)] ==
            IF i = 0 THEN <<>>
            ELSE IF Keep(messages[i]) THEN Append(F[i - 1], messages[i]) ELSE F[i - 1]
    IN  F[Len(messages)]

IsContentMessage(msg) == ~IsRemoveMessage(msg)

\* before_model: the update the middleware returns, None or <<the message list>>,
\* with the result of _enforce_budget on the content messages, and the
\* messages of original_messages as the call leaves them: content_messages
\* holds the same objects (lines 223-232).
BeforeModelUpdate(update, state_messages, max_tokens, min_reserved, summaries) ==
    LET original_messages == IF update # None THEN update[1] ELSE state_messages
        sentinel_messages == Filtered(original_messages, IsRemoveMessage)
        content_messages == Filtered(original_messages, IsContentMessage)
        returned == EnforceBudgetCall(content_messages, max_tokens, min_reserved,
                                      summaries)
        enforced == returned.enforced
        ContentPlace(i) ==
            Cardinality({j \in 1..i : IsContentMessage(original_messages[j])})
    IN  [enforced |-> IF original_messages = <<>> THEN NoResult ELSE enforced,
         original |-> [i \in DOMAIN original_messages |->
                          IF IsContentMessage(original_messages[i])
                          THEN returned.messages[ContentPlace(i)]
                          ELSE original_messages[i]],
         update |-> IF original_messages = <<>> \/ ~enforced.changed THEN update
                    ELSE IF sentinel_messages # <<>>
                         THEN Some(sentinel_messages \o enforced.messages)
                         ELSE Some(enforced.messages)]

PositionOfId(messages, id) ==
    IF \E i \in DOMAIN messages : MessageId(messages[i]) = id
    THEN CHOOSE i \in DOMAIN messages : MessageId(messages[i]) = id
    ELSE 0

LastSentinel(messages) ==
    IF \E i \in DOMAIN messages : messages[i] = RemoveAllSentinel
    THEN CHOOSE i \in DOMAIN messages :
             /\ messages[i] = RemoveAllSentinel
             /\ \A j \in DOMAIN messages : messages[j] = RemoveAllSentinel => j <= i
    ELSE 0

\* add_messages, the reducer of state["messages"]: an update holding the
\* remove-all sentinel replaces the history by what follows the sentinel; any
\* other update replaces the messages whose identifier it repeats and appends
\* the rest.
MergeById(left, right) ==
    LET M[k \in 0..Len(right)] ==
            IF k = 0 THEN left
            ELSE LET at == IF MessageId(right[k]) = "" THEN 0
                           ELSE PositionOfId(M[k - 1], MessageId(right[k]))
                 IN  IF at = 0 THEN Append(M[k - 1], right[k])
                     ELSE [i \in DOMAIN M[k - 1] |->
                              IF i = at THEN right[k] ELSE M[k - 1][i]]
    IN  M[Len(right)]

ReduceMessages(left, right) ==
    IF LastSentinel(right) # 0
    THEN SubSeq(right, LastSentinel(right) + 1, Len(right))
    ELSE MergeById(left, right)

ApplyUpdate(state_messages, update) ==
    IF update = None THEN state_messages ELSE ReduceMessages(state_messages, update[1])

\* One model call: the base pass runs, the middleware answers, and the graph
\* applies the returned update to the history.
SummBeforeModel(cutoff) ==
    /\ summ_pc = "ready"
    /\ cutoff \in 0..Len(summ_messages)
    /\ LET state_messages == StateMessages(summ_messages)
           base == BasePass(state_messages, cutoff, summ_summaries)
           answered == BeforeModelUpdate(base, state_messages, summ_max_tokens,
                                         summ_min_reserved,
                                         IF cutoff = 0 THEN summ_summaries
                                         ELSE AfterFirstSummary(summ_summaries))
       IN  /\ summ_base' = IF base = None THEN None ELSE Some(answered.original)
           /\ summ_result' = answered.enforced
           /\ summ_update' = answered.update
           /\ summ_after' = ApplyUpdate(state_messages, answered.update)
    /\ summ_pc' = "returned"
    /\ UNCHANGED <<summ_messages, summ_max_tokens, summ_min_reserved, summ_summaries>>
    /\ UNCHANGED <<reb_normalized, reb_flags, reb_assembled, reb_dropped, reb_iterations>>
    /\ UNCHANGED notSummVars

SummNextBeforeModel == \E cutoff \in 0..MaxHistory : SummBeforeModel(cutoff)

\* _enforce_budget, lines 254-266: the history with its last human message
\* truncated to the preservable budget
NormalizedMessages(messages, max_tokens_before_summary, min_reserved_tokens) ==
    LET last_human_idx == FindLastHumanIndex(messages)
    IN  IF last_human_idx # 0
        THEN Replaced(messages, last_human_idx,
                      TruncateIfNeeded(messages[last_human_idx],
                                       MaxPreservableTokens(max_tokens_before_summary,
                                                            min_reserved_tokens)))
        ELSE messages

\* _enforce_budget, lines 258-282: the flags handed to _rebalance_until_within_budget
InitialPreserveFlags(messages, max_tokens_before_summary, min_reserved_tokens) ==
    LET last_human_idx == FindLastHumanIndex(messages)
        normalized_messages == NormalizedMessages(messages, max_tokens_before_summary,
                                                  min_reserved_tokens)
    IN  MarkPreserved(normalized_messages, Len(normalized_messages),
                      [i \in DOMAIN messages |-> i = last_human_idx],
                      IF last_human_idx # 0
                      THEN TokenCounter(<<normalized_messages[last_human_idx]>>) ELSE 0,
                      MaxPreservableTokens(max_tokens_before_summary,
                                           min_reserved_tokens))

\* The middleware before a call of _enforce_budget.
RebalanceInit ==
    /\ summ_messages = <<>>
    /\ summ_max_tokens = 29
    /\ summ_min_reserved = DefaultMinReservedTokens
    /\ summ_summaries = <<"ok">>
    /\ summ_pc = "ready"
    /\ summ_result = NoResult
    /\ summ_base = None
    /\ summ_update = None
    /\ summ_after = <<>>
    /\ reb_normalized = <<>>
    /\ reb_flags = <<>>
    /\ reb_assembled = Assembled(<<>>, 0)
    /\ reb_dropped = <<>>
    /\ reb_iterations = 0

\* _enforce_budget up to the while loop of _rebalance_until_within_budget
\* (lines 246-306), for a history over the budget
EnterRebalance(messages, max_tokens_before_summary, min_reserved_tokens, summaries) ==
    /\ summ_pc = "ready"
    /\ TokenCounter(messages) > max_tokens_before_summary
    /\ messages # <<>>
    /\ summ_messages' = messages
    /\ summ_max_tokens' = max_tokens_before_summary
    /\ summ_min_reserved' = min_reserved_tokens
    /\ summ_summaries' = summaries
    /\ LET normalized_messages ==
               NormalizedMessages(messages, max_tokens_before_summary,
                                  min_reserved_tokens)
           flags == SynchronizeToolPreservation(
                        CollectMessageClusters(normalized_messages),
                        InitialPreserveFlags(messages, max_tokens_before_summary,
                                             min_reserved_tokens))
       IN  /\ reb_normalized' = normalized_messages
           /\ reb_flags' = flags
           /\ reb_assembled' = AssembleMessages(normalized_messages, flags, summaries, 0)
    /\ reb_dropped' = <<>>
    /\ reb_iterations' = 0
    /\ summ_pc' = "loop"
    /\ UNCHANGED <<summ_result, summ_base, summ_update, summ_after>>
    /\ UNCHANGED notSummVars

\* The condition of the while loop together with the break inside it.
LoopContinues ==
    /\ TokenCounter(reb_assembled.current) > summ_max_tokens
    /\ SelectDropCluster(CollectMessageClusters(reb_normalized), reb_flags,
                         FindLastHumanIndex(summ_messages)) # <<>>

\* One iteration of the while loop (lines 307-316)
DropCluster ==
    /\ summ_pc = "loop"
    /\ LoopContinues
    /\ LET clusters == CollectMessageClusters(reb_normalized)
           drop_cluster == SelectDropCluster(clusters, reb_flags,
                                             FindLastHumanIndex(summ_messages))
           flags == SynchronizeToolPreservation(
                        clusters, SetFlags(reb_flags, drop_cluster, FALSE))
       IN  /\ reb_iterations' = reb_iterations + 1
           /\ reb_dropped' = drop_cluster
           /\ reb_flags' = flags
           /\ reb_assembled' = AssembleMessages(reb_normalized, flags, summ_summaries,
                                                reb_assembled.calls)
    /\ UNCHANGED <<summ_messages, summ_max_tokens, summ_min_reserved, summ_summaries,
                   summ_pc, summ_result, summ_base, summ_update, summ_after,
                   reb_normalized>>
    /\ UNCHANGED notSummVars

\* The loop ends: its condition fails or it breaks (lines 307, 311-312).
LeaveLoop ==
    /\ summ_pc = "loop"
    /\ ~LoopContinues
    /\ summ_pc' = "left"
    /\ UNCHANGED <<summ_messages, summ_max_tokens, summ_min_reserved, summ_summaries,
                   summ_result, summ_base, summ_update, summ_after>>
    /\ UNCHANGED <<reb_normalized, reb_flags, reb_assembled, reb_dropped, reb_iterations>>
    /\ UNCHANGED notSummVars

\* After the loop: the rest of _rebalance_until_within_budget and of
\* _enforce_budget (lines 318-352, 288-291).  The messages the loop left are
\* followed as objects from here: the summary messages at the front of the
\* assembled list are new, the preserved ones are those of the normalized list.
FinishEnforceBudget ==
    /\ summ_pc = "left"
    /\ LET normalized_messages == TaggedMessages(reb_normalized)
           preserved_messages == Kept(normalized_messages, reb_flags, TRUE)
           current == SubSeq(reb_assembled.current, 1,
                             Len(reb_assembled.current) - Len(preserved_messages))
                      \o preserved_messages
           balanced_messages ==
               DropOrphanToolPairs(
                   AfterLoop(normalized_messages,
                             [flags |-> reb_flags, current |-> current,
                              calls |-> reb_assembled.calls],
                             FindLastHumanIndex(summ_messages), summ_max_tokens,
                             summ_min_reserved, summ_summaries))
           returned == AssignIdsAndCompare(summ_messages, balanced_messages)
       IN  /\ summ_result' = returned.enforced
           /\ summ_messages' = returned.messages
    /\ summ_pc' = "returned"
    /\ UNCHANGED <<summ_max_tokens, summ_min_reserved, summ_summaries,
                   summ_base, summ_update, summ_after>>
    /\ UNCHANGED <<reb_normalized, reb_flags, reb_assembled, reb_dropped, reb_iterations>>
    /\ UNCHANGED notSummVars

RebalanceNext ==
    \/ /\ summ_pc = "ready"
       /\ \E messages \in Histories, max_tokens_before_summary \in Budgets,
             min_reserved_tokens \in MinReservedTokens, summaries \in SummaryScripts :
              EnterRebalance(messages, max_tokens_before_summary, min_reserved_tokens,
                             summaries)
    \/ DropCluster
    \/ LeaveLoop
    \/ FinishEnforceBudget

(***************************************************************************)
(* Patch-tool-calls middleware                                             *)
(*                                                                         *)
(* PatchToolCallsMiddleware.before_agent, from the specification (4.10)    *)
(* and the tests: the module itself is not among the sources.  The         *)
(* specification says a result is missing when the assistant message "is   *)
(* not immediately followed by" it; whether a result further down the      *)
(* history counts is left open, and patch_mode covers both readings.  A    *)
(* message id of "" stands for a message without an id.                    *)
(***************************************************************************)

MaxPatchHistory == 3
MaxPatchRuns == 2

PatchMessage(id, type, content, tool_calls, tool_call_id, name) ==
    [id |-> id, type |-> type, content |-> content, tool_calls |-> tool_calls,
     tool_call_id |-> tool_call_id, name |-> name]

NamedToolCall(name, id) == [name |-> name, id |-> id]

\* The messages histories are made of, before they get their ids.
PatchShapes ==
    { PatchMessage("", "system", "You are a helpful assistant.", <<>>, "", ""),
      PatchMessage("", "human", "Hello", <<>>, "", ""),
      PatchMessage("", "ai", "ok", <<NamedToolCall("get_events", "123")>>, "", ""),
      PatchMessage("", "ai", "ok", <<NamedToolCall("get_events", "123"),
                                     NamedToolCall("get_weather", "456")>>, "", ""),
      PatchMessage("", "tool", "none", <<>>, "123", ""),
      PatchMessage("", "tool", "sunny", <<>>, "456", "") }

\* state["messages"] has passed through add_messages: every message has an id
WithIds(shapes) ==
    [i \in DOMAIN shapes |->
        PatchMessage(ToString(i), shapes[i].type, shapes[i].content,
                     shapes[i].tool_calls, shapes[i].tool_call_id, shapes[i].name)]

PatchHistories == {WithIds(h) : h \in UNION {[1..n -> PatchShapes] : n \in 1..MaxPatchHistory}}

PatchModes == {"adjacent", "later"}

\* the last index of the run of tool results that starts right after i
RECURSIVE ResultsEnd(_, _)
ResultsEnd(messages, i) ==
    IF i < Len(messages) /\ messages[i + 1].type = "tool"
    THEN ResultsEnd(messages, i + 1) ELSE i

MissingResult_Never(mode, messages, i, tool_call) == FALSE

\* no result answers tool_call of the assistant message at i
MissingResult(mode, messages, i, tool_call) ==
    LET last == IF mode = "adjacent" THEN ResultsEnd(messages, i) ELSE Len(messages)
    IN  ~\E j \in (i + 1)..last :
            messages[j].type = "tool" /\ messages[j].tool_call_id = tool_call.id

Placeholder_Unnamed(tool_call) ==
    PatchMessage("", "tool", "cancelled", <<>>, tool_call.id, "")

\* the synthesized result: it names the tool and the call id
Placeholder(tool_call) ==
    PatchMessage("", "tool",
                 "Tool call " \o tool_call.name \o " with id " \o tool_call.id
                     \o " was cancelled",
                 <<>>, tool_call.id, tool_call.name)

RECURSIVE Placeholders(_, _, _, _)
Placeholders(mode, messages, i, tool_calls) ==
    IF tool_calls = <<>> THEN <<>>
    ELSE (IF MissingResult(mode, messages, i, Head(tool_calls))
          THEN <<Placeholder(Head(tool_calls))>> ELSE <<>>)
         \o Placeholders(mode, messages, i, Tail(tool_calls))

\* the corrected list, from message i on
RECURSIVE PatchedFrom(_, _, _)
PatchedFrom(mode, messages, i) ==
    IF i > Len(messages) THEN <<>>
    ELSE <<messages[i]>>
         \o (IF messages[i].type = "ai"
             THEN Placeholders(mode, messages, i, messages[i].tool_calls) ELSE <<>>)
         \o PatchedFrom(mode, messages, i + 1)

RemoveAllMessages == PatchMessage("__remove_all__", "remove", "", <<>>, "", "")

BeforeAgentUpdate_Incremental(mode, messages) == PatchedFrom(mode, messages, 1)

\* what before_agent returns: the removal sentinel, then the corrected list
BeforeAgentUpdate(mode, messages) ==
    <<RemoveAllMessages>> \o PatchedFrom(mode, messages, 1)

\* add_messages gives a message without an id a fresh one; `assigned` ids
\* were given out before
RECURSIVE AssignIds(_, _)
AssignIds(messages, assigned) ==
    IF messages = <<>> THEN <<>>
    ELSE IF Head(messages).id = ""
    THEN <<PatchMessage("uuid-" \o ToString(assigned + 1), Head(messages).type,
                        Head(messages).content, Head(messages).tool_calls,
                        Head(messages).tool_call_id, Head(messages).name)>>
         \o AssignIds(Tail(messages), assigned + 1)
    ELSE <<Head(messages)>> \o AssignIds(Tail(messages), assigned)

WithoutId(messages) ==
    Cardinality({i \in DOMAIN messages : messages[i].id = ""})

AddMessages_Append(left, right, assigned) == AssignIds(left \o right, assigned)

\* add_messages(left, right) for an update that starts with the removal
\* sentinel: everything before the sentinel goes, what follows it stays
AddMessages(left, right, assigned) ==
    IF right # <<>> /\ Head(right) = RemoveAllMessages
    THEN AssignIds(Tail(right), assigned)
    ELSE AssignIds(left \o right, assigned)

PatchInit ==
    /\ patch_mode \in PatchModes
    /\ patch_messages \in PatchHistories
    /\ patch_input = <<>>
    /\ patch_update = <<>>
    /\ patch_runs = 0
    /\ patch_ids = 0

PatchIdle ==
    /\ patch_mode = "later"
    /\ patch_messages = <<>>
    /\ patch_input = <<>>
    /\ patch_update = <<>>
    /\ patch_runs = MaxPatchRuns
    /\ patch_ids = 0

\* before_agent, and the merge of its update into state["messages"]
BeforeAgent ==
    /\ patch_runs < MaxPatchRuns
    /\ patch_runs' = patch_runs + 1
    /\ patch_input' = patch_messages
    /\ patch_update' = BeforeAgentUpdate(patch_mode, patch_messages)
    /\ patch_messages' = AddMessages(patch_messages,
                                     BeforeAgentUpdate(patch_mode, patch_messages),
                                     patch_ids)
    /\ patch_ids' = patch_ids + WithoutId(BeforeAgentUpdate(patch_mode, patch_messages))
    /\ UNCHANGED patch_mode
    /\ UNCHANGED notPatchVars

PatchNext == BeforeAgent

(***************************************************************************)
(* Summary budget                                                          *)
(*                                                                         *)
(* compute_summary_budget (summarization.py).                              *)
(***************************************************************************)

DefaultSummaryBudget == 4000
MinSafetyMargin == 6000
MinSummaryBudget == 2000

TokenLimits == {-1, 0, 1, 2000, 3999, 4000, 4001, 8192, 11999, 12000, 12001, 60000,
                60001, 150000, 150001, 200000, 220000, 220001}

RequestedBudgets ==
    {None} \cup {Some(r) : r \in {0, 1999, 2000, 2001, 4096, 6000, 160000, 180000,
                                  190000}}

Max3(a, b, c) == Max(a, Max(b, c))

\* int(token_limit * 0.1) for token_limit >= 0
TenPercent(token_limit) == token_limit \div 10

SafetyMargin(token_limit) == Max(TenPercent(token_limit), MinSafetyMargin)

MaxThreshold_NoHalf(token_limit) ==
    Max(token_limit - SafetyMargin(token_limit), MinSummaryBudget)

\* max_threshold, lines 155-159
MaxThreshold(token_limit) ==
    IF token_limit - SafetyMargin(token_limit) <= 0
    THEN Max(token_limit \div 2, MinSummaryBudget)
    ELSE Max3(token_limit - SafetyMargin(token_limit), token_limit \div 2,
              MinSummaryBudget)

\* compute_summary_budget
ComputeSummaryBudget(token_limit, requested) ==
    IF token_limit <= 0 THEN DefaultSummaryBudget
    ELSE IF requested # None
    THEN Max(Min(requested[1], MaxThreshold(token_limit)), MinSummaryBudget)
    ELSE MaxThreshold(token_limit)

\* determine_messages_to_keep (summarization.py)
DetermineMessagesToKeep(token_limit) ==
    IF token_limit <= 60000 THEN 2
    ELSE IF token_limit <= 150000 THEN 3
    ELSE IF token_limit <= 220000 THEN 4
    ELSE 6

\* _compute_summary_budget (middleware.py), the copy the sub-agent registry
\* uses; `//` rounds towards minus infinity, as \div does.
RegistryComputeSummaryBudget(token_limit, requested) ==
    IF requested # None
    THEN Max(Min(requested[1], Max(token_limit - 8000, 4000)), 2000)
    ELSE Min(Max(token_limit \div 20, 4000), Max(token_limit - 8000, 4000))

\* _determine_messages_to_keep (middleware.py)
RegistryDetermineMessagesToKeep(token_limit) ==
    IF token_limit <= 60000 THEN 2
    ELSE IF token_limit <= 150000 THEN 3
    ELSE IF token_limit <= 220000 THEN 4
    ELSE 6

BudgetInit ==
    /\ csb_token_limit \in TokenLimits
    /\ csb_requested \in RequestedBudgets
    /\ csb_result = None

BudgetIdle ==
    /\ csb_token_limit = 0
    /\ csb_requested = None
    /\ csb_result = Some(DefaultSummaryBudget)

\* one call of compute_summary_budget
CallComputeSummaryBudget ==
    /\ csb_result = None
    /\ csb_result' = Some(ComputeSummaryBudget(csb_token_limit, csb_requested))
    /\ UNCHANGED <<csb_token_limit, csb_requested>>
    /\ UNCHANGED notBudgetVars

BudgetNext == CallComputeSummaryBudget

notLongTermVars ==
    <<timerVars, chatVars, llmVars, flowVars, fsVars, summVars, patchVars, budgetVars, taskVars>>

(***************************************************************************)
(* Filesystem middleware, long-term memory                                 *)
(*                                                                         *)
(* FilesystemMiddleware(long_term_memory=True) with a store attached to    *)
(* the runtime (specification 4.6, 4.7; test_long_term_tool_cycle).  The   *)
(* session file map is state['files'] after the tool's update is applied;  *)
(* the durable store is the ("filesystem",) namespace of the store.        *)
(* Whether a write under /memories/ refuses to overwrite an existing entry *)
(* is left open by the specification: lt_overwrite runs both readings.     *)
(***************************************************************************)

MaxLtOps == 3

LtPaths == {"/local.txt", "/memories.txt", "/memories/journal.txt",
            "/memories/archive.txt"}
LtStoreKeys == {"/journal.txt", "/archive.txt"}
LtContents == {"a", "aa"}
LtOldStrings == {"a", "c"}
LtNewStrings == {"c"}
LtOverwriteModes == {"blocked", "replaced"}

MemoriesPrefix == "/memories/"

\* paths under /memories/ are routed to the durable store
IsLongTermPath(file_path) == StartsWith(file_path, MemoriesPrefix)

\* the store key of a path under /memories/: the prefix goes, the slash stays
StoreKey(file_path) == SubSeq(file_path, Len(MemoriesPrefix), Len(file_path))

MemoriesPath_Bare(key) == key

\* the path under which ls shows a store entry
MemoriesPath(key) == SubSeq(MemoriesPrefix, 1, Len(MemoriesPrefix) - 1) \o key

\* the paths of a map from paths to None or <<content>>
Present(map) == {key \in DOMAIN map : map[key] # None}

\* ls with no path, long-term mode
LongTermListing(session_files, entries) ==
    Present(session_files) \cup {MemoriesPath(key) : key \in Present(entries)}

LtCalled(tool, file_path, ok, output) ==
    lt_last' = [tool |-> tool, file_path |-> file_path, ok |-> ok, output |-> output]

LongTermInit ==
    /\ lt_files \in [LtPaths -> {None, Some("a")}]
    /\ \A file_path \in LtPaths : IsLongTermPath(file_path) => lt_files[file_path] = None
    /\ lt_store \in [LtStoreKeys -> {None, Some("a")}]
    /\ lt_overwrite \in LtOverwriteModes
    /\ lt_last = [tool |-> "", file_path |-> "", ok |-> TRUE, output |-> {}]
    /\ lt_ops = 0

LongTermIdle ==
    /\ lt_files = [file_path \in LtPaths |-> None]
    /\ lt_store = [key \in LtStoreKeys |-> None]
    /\ lt_overwrite = "blocked"
    /\ lt_last = [tool |-> "", file_path |-> "", ok |-> TRUE, output |-> {}]
    /\ lt_ops = MaxLtOps

LtStep ==
    /\ lt_ops < MaxLtOps
    /\ lt_ops' = lt_ops + 1
    /\ UNCHANGED lt_overwrite
    /\ UNCHANGED notLongTermVars

\* ls()
LtLs ==
    /\ LtStep
    /\ LtCalled("ls", "", TRUE, LongTermListing(lt_files, lt_store))
    /\ UNCHANGED <<lt_files, lt_store>>

\* write_file(file_path, content), its update applied to the session state
LtWriteFile(file_path, content) ==
    /\ LtStep
    /\ IF IsLongTermPath(file_path)
       THEN IF lt_store[StoreKey(file_path)] # None /\ lt_overwrite = "blocked"
            THEN /\ LtCalled("write_file", file_path, FALSE, {"already exists"})
                 /\ UNCHANGED <<lt_files, lt_store>>
            ELSE /\ lt_store' = [lt_store EXCEPT ![StoreKey(file_path)] = Some(content)]
                 /\ LtCalled("write_file", file_path, TRUE, {})
                 /\ UNCHANGED lt_files
       ELSE IF lt_files[file_path] # None
            THEN /\ LtCalled("write_file", file_path, FALSE, {"already exists"})
                 /\ UNCHANGED <<lt_files, lt_store>>
            ELSE /\ lt_files' = [lt_files EXCEPT ![file_path] = Some(content)]
                 /\ LtCalled("write_file", file_path, TRUE, {})
                 /\ UNCHANGED lt_store

\* the outcome of an edit on a content: <<ok, new content>>
LtEdited(content, old_string, new_string, replace_all) ==
    IF content = None \/ ~Contains(content[1], old_string)
       \/ Ambiguous(replace_all, Count(content[1], old_string))
    THEN <<FALSE, content>>
    ELSE <<TRUE, Some(IF replace_all
                      THEN Replace(content[1], old_string, new_string, -1)
                      ELSE ReplaceOnce(content[1], old_string, new_string))>>

\* edit_file(file_path, old_string, new_string, replace_all), update applied
LtEditFile(file_path, old_string, new_string, replace_all) ==
    /\ LtStep
    /\ IF IsLongTermPath(file_path)
       THEN LET edited == LtEdited(lt_store[StoreKey(file_path)], old_string, new_string,
                                   replace_all)
            IN  /\ lt_store' = [lt_store EXCEPT ![StoreKey(file_path)] = edited[2]]
                /\ LtCalled("edit_file", file_path, edited[1], {})
                /\ UNCHANGED lt_files
       ELSE LET edited == LtEdited(lt_files[file_path], old_string, new_string,
                                   replace_all)
            IN  /\ lt_files' = [lt_files EXCEPT ![file_path] = edited[2]]
                /\ LtCalled("edit_file", file_path, edited[1], {})
                /\ UNCHANGED lt_store

LongTermNext ==
    \/ LtLs
    \/ \E file_path \in LtPaths, content \in LtContents : LtWriteFile(file_path, content)
    \/ \E file_path \in LtPaths, old_string \in LtOldStrings, new_string \in LtNewStrings,
          replace_all \in BOOLEAN :
          LtEditFile(file_path, old_string, new_string, replace_all)

(***************************************************************************)
(* Sub-agent delegation: the task tool of create_task_tool                 *)
(*                                                                         *)
(* A state is a function from its keys to their values.  The sub-agent is  *)
(* an input: whatever state it returns for the state it was invoked with.  *)
(* The parent may issue several task calls in one turn; they run at the    *)
(* same time and are handed the same state dictionary.                     *)
(***************************************************************************)
notTaskVars ==
    <<timerVars, chatVars, llmVars, flowVars, fsVars, summVars, patchVars, budgetVars,
      longTermVars>>

MaxTaskCalls == 2

\* agents, in the order of registration
TaskAgents == <<"general-purpose", "critic">>

SubagentTypes == Range(TaskAgents) \cup {"planner"}
Descriptions == {"find sources", "check claims"}
TaskToolCallIds == {"call_1", "call_2"}
TaskVariants == {"async", "sync"}

UserMessage(content) == [role |-> "user", content |-> content]
TaskToolMessage(content, tool_call_id) ==
    [type |-> "tool", content |-> content, tool_call_id |-> tool_call_id]

\* The grave accent, taken from a string in which the lexer accepts it.
Backtick == SubSeq("`'", 1, 1)

\* The list of the agents' names, each between grave accents, as Python prints
\* a list of strings.
RECURSIVE QuotedNames(_)
QuotedNames(names) ==
    IF names = <<>> THEN <<>>
    ELSE <<"'" \o Backtick \o Head(names) \o "`'">> \o QuotedNames(Tail(names))

AllowedTypesText(names) == "[" \o JoinWith(QuotedNames(names), ", ") \o "]"

UnknownTypeError(subagent_type, names) ==
    "Error: invoked agent of type " \o subagent_type
    \o ", the only allowed types are " \o AllowedTypesText(names)

\* What a task call did: the text or the Command update it returned, and the
\* state the sub-agent was invoked with, if it was.
TaskOutcome(kind, text, update, invoked_with) ==
    [kind |-> kind, text |-> text, update |-> update, invoked_with |-> invoked_with]

\* state with state[key] = value
WithKey(state, key, value) ==
    [k \in DOMAIN state \cup {key} |-> IF k = key THEN value ELSE state[k]]

\* state["messages"] = [{"role": "user", "content": description}] (lines 640,
\* 669): the dictionary the call was handed, after the assignment.
InvokedState(state, description) == WithKey(state, "messages", <<UserMessage(description)>>)

\* state_update: the keys of the result other than todos and messages
StateUpdate(result) == [k \in DOMAIN result \ {"todos", "messages"} |-> result[k]]

\* The Command update built from the sub-agent's result.
CommandUpdate(result, tool_call_id) ==
    WithKey(StateUpdate(result), "messages",
            <<TaskToolMessage(result["messages"][Len(result["messages"])].content,
                              tool_call_id)>>)

\* The states a sub-agent may return for the state it was invoked with: the
\* conversation it was given followed by its answer, its own todos, the files
\* it left, and optionally a further key.
FinalAnswers == {"report", ""}
SubAgentTodos == {<<>>, <<"draft outline">>}
SubAgentFiles == {<<>>, <<"notes.md">>}

SubAgentResults(invoked) ==
    LET core == { [messages |-> invoked["messages"] \o <<[type |-> "ai", content |-> a]>>,
                   todos |-> t, files |-> f] :
                  a \in FinalAnswers, t \in SubAgentTodos, f \in SubAgentFiles }
    IN  core \cup { WithKey(r, "structured_response", "summary") : r \in core }

\* The graph applies a Command update to the parent's state: messages are
\* appended, any other key of the update replaces the parent's value.
ApplyCommand(state, update) ==
    [k \in DOMAIN state \cup DOMAIN update |->
        IF k \notin DOMAIN update THEN state[k]
        ELSE IF k = "messages" /\ k \in DOMAIN state THEN state[k] \o update[k]
        ELSE update[k]]

ParentStates ==
    { [messages |-> <<UserMessage("plan the work")>>, todos |-> t, files |-> f] :
      t \in {<<>>, <<"delegate">>}, f \in {<<>>, <<"plan.md">>} }

NoTaskCall ==
    [called |-> FALSE, variant |-> "", description |-> "", subagent_type |-> "",
     tool_call_id |-> "", result |-> None, outcome |-> TaskOutcome("", "", None, None)]

IdleTaskCall ==
    [pc |-> "idle", description |-> "", subagent_type |-> "", tool_call_id |-> "",
     invoked_with |-> None]

\* The parent's turn before its task calls run.  The tool node hands every
\* call of the turn the state it was entered with.
TaskInit ==
    /\ task_state \in ParentStates
    /\ task_injected = task_state
    /\ task_variant \in TaskVariants
    /\ task_call = [c \in Callers |-> IdleTaskCall]
    /\ task_pre = task_state
    /\ task_last = NoTaskCall
    /\ task_calls = 0

TaskIdle ==
    /\ task_state = [messages |-> <<>>, todos |-> <<>>, files |-> <<>>]
    /\ task_injected = task_state
    /\ task_variant = "sync"
    /\ task_call = [c \in Callers |-> IdleTaskCall]
    /\ task_pre = task_state
    /\ task_last = NoTaskCall
    /\ task_calls = MaxTaskCalls

\* task, up to the invocation of the sub-agent (lines 637-640, 666-669): an
\* unregistered type returns the error text at once; otherwise the call
\* replaces the messages of the dictionary it was handed, in place.
Task(c, description, subagent_type, tool_call_id) ==
    /\ task_call[c].pc = "idle"
    /\ task_calls < MaxTaskCalls
    /\ task_calls' = task_calls + 1
    /\ UNCHANGED <<task_state, task_variant>>
    /\ UNCHANGED notTaskVars
    /\ IF subagent_type \notin Range(TaskAgents)
       THEN /\ task_last' = [called |-> TRUE, variant |-> task_variant,
                             description |-> description,
                             subagent_type |-> subagent_type,
                             tool_call_id |-> tool_call_id, result |-> None,
                             outcome |-> TaskOutcome("text",
                                            UnknownTypeError(subagent_type, TaskAgents),
                                            None, None)]
            /\ task_pre' = task_state
            /\ UNCHANGED <<task_injected, task_call>>
       ELSE /\ task_injected' = InvokedState(task_injected, description)
            /\ task_call' = [task_call EXCEPT ![c] =
                                 [pc |-> "invoke", description |-> description,
                                  subagent_type |-> subagent_type,
                                  tool_call_id |-> tool_call_id, invoked_with |-> None]]
            /\ UNCHANGED <<task_pre, task_last>>

\* sub_agent.invoke(state) / await sub_agent.ainvoke(state) (lines 641, 670):
\* the sub-agent is handed the dictionary itself, and its run takes its
\* conversation from what the dictionary holds when it starts.  The calls of
\* the synchronous tool run in threads; the run of an asynchronous sub-agent
\* may suspend before it reads its input.
SubAgentInvoke(c) ==
    /\ task_call[c].pc = "invoke"
    /\ task_call' = [task_call EXCEPT ![c].pc = "running",
                                      ![c].invoked_with = Some(task_injected)]
    /\ UNCHANGED <<task_state, task_injected, task_variant, task_pre, task_last, task_calls>>
    /\ UNCHANGED notTaskVars

\* task, from the sub-agent's result on (lines 642-655, 671-685), and the
\* graph folding the returned Command into the parent's state.
TaskReturn(c, result) ==
    /\ task_call[c].pc = "running"
    /\ result \in SubAgentResults(task_call[c].invoked_with[1])
    /\ LET update == CommandUpdate(result, task_call[c].tool_call_id)
       IN  /\ task_last' = [called |-> TRUE, variant |-> task_variant,
                            description |-> task_call[c].description,
                            subagent_type |-> task_call[c].subagent_type,
                            tool_call_id |-> task_call[c].tool_call_id,
                            result |-> Some(result),
                            outcome |-> TaskOutcome("command", "", Some(update),
                                                    task_call[c].invoked_with)]
           /\ task_state' = ApplyCommand(task_state, update)
    /\ task_pre' = task_state
    /\ task_call' = [task_call EXCEPT ![c] = IdleTaskCall]
    /\ UNCHANGED <<task_injected, task_variant, task_calls>>
    /\ UNCHANGED notTaskVars

\* The results the sub-agents of the calls in flight may return.
TaskResults ==
    UNION { SubAgentResults(task_call[c].invoked_with[1]) :
            c \in {k \in Callers : task_call[k].pc = "running"} }

TaskNext ==
    \/ \E c \in Callers, description \in Descriptions, subagent_type \in SubagentTypes,
          tool_call_id \in TaskToolCallIds :
          Task(c, description, subagent_type, tool_call_id)
    \/ \E c \in Callers : SubAgentInvoke(c)
    \/ \E c \in Callers, result \in TaskResults : TaskReturn(c, result)

(***************************************************************************)
(* Specifications                                                          *)
(***************************************************************************)
InitTimer == TimerInit /\ ChatIdle /\ LlmIdle /\ FlowIdle /\ FsIdle /\ SummIdle /\ PatchIdle /\ BudgetIdle /\ LongTermIdle /\ TaskIdle

SpecTimer == InitTimer /\ [][TimerNext]_vars

InitChat == ChatInit /\ TimerIdle /\ LlmIdle /\ FlowIdle /\ FsIdle /\ SummIdle /\ PatchIdle /\ BudgetIdle /\ LongTermIdle /\ TaskIdle

SpecChat == InitChat /\ [][ChatNextSequential]_vars

SpecChatConcurrent == InitChat /\ [][ChatNextConcurrent]_vars

SpecChatFaulty == InitChat /\ [][ChatNextFaulty]_vars

InitLlm == LlmInit /\ TimerIdle /\ ChatIdle /\ FlowIdle /\ FsIdle /\ SummIdle /\ PatchIdle /\ BudgetIdle /\ LongTermIdle /\ TaskIdle

SpecLlm == InitLlm /\ [][LlmNextSequential]_vars

SpecLlmConcurrent == InitLlm /\ [][LlmNextConcurrent]_vars

InitFlow == FlowInit /\ TimerIdle /\ ChatIdle /\ LlmIdle /\ FsIdle /\ SummIdle /\ PatchIdle /\ BudgetIdle /\ LongTermIdle /\ TaskIdle

SpecFlow == InitFlow /\ [][FlowNext]_vars

\* The graph runs the node it has routed to: a run does not stop while a node
\* is waiting to run.
SpecFlowFair == InitFlow /\ [][FlowNext]_vars /\ WF_vars(FlowNext)

InitFs == FsInit /\ TimerIdle /\ ChatIdle /\ LlmIdle /\ FlowIdle /\ SummIdle /\ PatchIdle /\ BudgetIdle /\ LongTermIdle /\ TaskIdle

SpecFs == InitFs /\ [][FsNext]_vars

InitSumm == SummInit /\ TimerIdle /\ ChatIdle /\ LlmIdle /\ FlowIdle /\ FsIdle /\ PatchIdle /\ BudgetIdle /\ LongTermIdle /\ TaskIdle

SpecSumm == InitSumm /\ [][SummNext]_vars

SpecBeforeModel == InitSumm /\ [][SummNextBeforeModel]_vars

InitRebalance == RebalanceInit /\ TimerIdle /\ ChatIdle /\ LlmIdle /\ FlowIdle /\ FsIdle /\ PatchIdle /\ BudgetIdle /\ LongTermIdle /\ TaskIdle

SpecRebalance == InitRebalance /\ [][RebalanceNext]_vars

InitPatch == PatchInit /\ TimerIdle /\ ChatIdle /\ LlmIdle /\ FlowIdle /\ FsIdle /\ SummIdle /\ BudgetIdle /\ LongTermIdle /\ TaskIdle

SpecPatch == InitPatch /\ [][PatchNext]_vars

InitBudget == BudgetInit /\ TimerIdle /\ ChatIdle /\ LlmIdle /\ FlowIdle /\ FsIdle /\ SummIdle /\ PatchIdle /\ LongTermIdle /\ TaskIdle

SpecBudget == InitBudget /\ [][BudgetNext]_vars

InitLongTerm == LongTermInit /\ TimerIdle /\ ChatIdle /\ LlmIdle /\ FlowIdle /\ FsIdle /\ SummIdle /\ PatchIdle /\ BudgetIdle /\ TaskIdle

SpecLongTerm == InitLongTerm /\ [][LongTermNext]_vars

InitTask == TaskInit /\ TimerIdle /\ ChatIdle /\ LlmIdle /\ FlowIdle /\ FsIdle /\ SummIdle /\ PatchIdle /\ BudgetIdle /\ LongTermIdle

SpecTask == InitTask /\ [][TaskNext]_vars

(***************************************************************************)
(* Claims about ResearchTimerMiddleware, checked under SpecTimer           *)
(***************************************************************************)
TimerWarningDeadline100 ==
    WarningDeadline100(total_seconds, warning_ratio, warning_offset_seconds)

\* The last message of the state is a human message with this text (trimmed).
LastIsHumanText(messages, text) ==
    /\ Len(messages) > 0
    /\ LastOf(messages).type = "human"
    /\ Strip(LastOf(messages).content) = Strip(text)

\* The warning text for the elapsed time the last call observed.
TimerWarningText ==
    RoundUpMessage(FormatRemaining(Max(total_seconds - timer_pre.elapsed, 0)))

\* C7: over any sequence of before_model calls on one instance, at most one
\* returned update appends the warning and at most one appends the final message.
C7_AtMostOnce == warnings_emitted <= 1 /\ finals_emitted <= 1

\* C7 witness: both messages were emitted once and a further call followed.
C7_Witness ==
    /\ warnings_emitted = 1
    /\ finals_emitted = 1
    /\ timer_pre.final_sent
    /\ timer_pre.warning_sent

\* C8 as stated: the first call records the start time and returns no update,
\* a later call below the warning deadline returns no update, and the first call
\* at or above the deadline and below total_seconds returns an update whose last
\* message is the warning.
C8_Original ==
    timer_calls > 0 =>
        /\ timer_pre.first => (timer_update = None /\ start_time = Some(clock))
        /\ (~timer_pre.first /\ timer_pre.elapsed * 100 < TimerWarningDeadline100)
               => timer_update = None
        /\ ( /\ ~timer_pre.first
             /\ ~timer_pre.warning_sent
             /\ timer_pre.elapsed * 100 >= TimerWarningDeadline100
             /\ timer_pre.elapsed < total_seconds )
               => /\ timer_update # None
                  /\ LastOf(timer_update.messages) = HumanMessage(TimerWarningText, "timer")

\* C8 amended: as C8, except that the first call at or above the deadline returns
\* no update when the state's last message already is a human message with the
\* warning text (the de-duplication of _append_message).
C8_Staging ==
    timer_calls > 0 =>
        /\ timer_pre.first => (timer_update = None /\ start_time = Some(clock))
        /\ (~timer_pre.first /\ timer_pre.elapsed * 100 < TimerWarningDeadline100)
               => timer_update = None
        /\ ( /\ ~timer_pre.first
             /\ ~timer_pre.warning_sent
             /\ timer_pre.elapsed * 100 >= TimerWarningDeadline100
             /\ timer_pre.elapsed < total_seconds )
               => IF LastIsHumanText(timer_state, TimerWarningText)
                  THEN timer_update = None
                  ELSE /\ timer_update # None
                       /\ LastOf(timer_update.messages)
                            = HumanMessage(TimerWarningText, "timer")
                       /\ timer_update.messages
                            = Append(timer_state, LastOf(timer_update.messages))

\* C8 witness: a call exactly at the warning deadline returned the warning.
C8_Witness ==
    /\ timer_calls > 1
    /\ ~timer_pre.first
    /\ ~timer_pre.warning_sent
    /\ timer_pre.elapsed * 100 = TimerWarningDeadline100
    /\ timer_pre.elapsed < total_seconds
    /\ IsWarningUpdate(timer_update)
    /\ warning_sent

\* C9 as stated: a call that observes elapsed >= total_seconds with the final
\* message unsent returns the final message, never the warning, and marks both
\* flags; every later call returns no update.
C9_Original ==
    (timer_calls > 0 /\ ~timer_pre.first) =>
        /\ (~timer_pre.final_sent /\ timer_pre.elapsed >= total_seconds)
               => /\ IsFinalUpdate(timer_update)
                  /\ ~IsWarningUpdate(timer_update)
                  /\ warning_sent /\ final_sent
        /\ timer_pre.final_sent => timer_update = None

\* C9 amended: as C9, except that the call that breaches total_seconds returns
\* no update when the state's last message already is a human message with the
\* final text; both flags are marked all the same.
C9_FinalOnce ==
    (timer_calls > 0 /\ ~timer_pre.first) =>
        /\ (~timer_pre.final_sent /\ timer_pre.elapsed >= total_seconds)
               => /\ IF LastIsHumanText(timer_state, FinalMessageText)
                     THEN timer_update = None
                     ELSE IsFinalUpdate(timer_update)
                  /\ ~IsWarningUpdate(timer_update)
                  /\ warning_sent /\ final_sent
        /\ timer_pre.final_sent => timer_update = None

\* C9 witness: the final message went out with no warning before it, and a later
\* call past the deadline returned nothing.
C9_Witness ==
    /\ timer_pre.final_sent
    /\ finals_emitted = 1
    /\ warnings_emitted = 0
    /\ timer_update = None
    /\ timer_pre.elapsed >= total_seconds

(***************************************************************************)
(* Claims about ChatStreamManager                                          *)
(***************************************************************************)
\* C4: with calls made one after the other, once a terminal call ("stop" or
\* "interrupt") has persisted, the thread's record holds exactly the chunk
\* contents of all the accepted calls for that thread, in call order.
C4_PersistedInCallOrder ==
    (NoCallInFlight /\ last_call.persisted) =>
        /\ DbCount(last_call.thread_id) = 1
        /\ DbFirst(last_call.thread_id).messages = accepted[last_call.thread_id]

\* Three chunks, not all alike, persisted for t1.
C4_Witness ==
    /\ NoCallInFlight
    /\ last_call = [thread_id |-> "t1", result |-> TRUE, persisted |-> TRUE]
    /\ Len(accepted["t1"]) = 3
    /\ accepted["t1"][1] # accepted["t1"][2]
    /\ DbFirst("t1").messages = accepted["t1"]

\* C5: the durable store never holds more than one record for a thread_id,
\* whatever the interleaving of the calls, and a terminal call that returns
\* true has inserted or overwritten the record of its thread: when it returns,
\* the store holds a record of the thread with the call's messages and
\* timestamp.
C5_UpsertPerThread ==
    /\ [](\A t \in ThreadIds : DbCount(t) <= 1)
    /\ [][\A c \in Callers :
              (call[c].pc # "idle" /\ call'[c].pc = "idle" /\ last_call'.persisted) =>
                  \E i \in 1..Len(db') :
                      /\ db'[i].thread_id = call[c].thread_id
                      /\ db'[i].messages = call[c].messages
                      /\ db'[i].ts = call[c].ts]_vars

\* On PostgreSQL a terminal call for t1 returned true and the table holds no
\* record of t1: the call for t2 that ran at the same time called rollback()
\* on the shared connection between the INSERT of the first and its commit().
\* No two terminal calls for one thread ran at the same time.
C5_Witness ==
    /\ backend = "postgres"
    /\ NoCallInFlight
    /\ overlapped = {}
    /\ chat_calls = 2
    /\ last_call = [thread_id |-> "t1", result |-> TRUE, persisted |-> TRUE]
    /\ store["t2"] # <<>>
    /\ ~DbHas("t1")

(***************************************************************************)
(* Claims about the LLM provider factory                                   *)
(***************************************************************************)
\* C6: with calls made one after the other, every call for a type returns the
\* same instance, the one in the cache, and at most one instance is ever
\* constructed for the type (by its first successful call).
C6_SameInstance ==
    \A t \in LlmTypes :
        /\ llm_built[t] <= 1
        /\ \A i \in 1..Len(llm_returned[t]) :
              /\ llm_returned[t][i] = llm_returned[t][1]
              /\ llm_cache[t] = Some(llm_returned[t][1])

\* A call for "basic" raised, then three calls returned the one instance.
C6_Witness ==
    /\ llm_raised >= 1
    /\ Len(llm_returned["basic"]) = 3
    /\ llm_built["basic"] = 1
    /\ llm_built["reasoning"] = 0
    /\ llm_built["other"] = 0

(***************************************************************************)
(* Claims about the research workflow                                      *)
(***************************************************************************)
PlanStepsNow == IF current_plan = None THEN <<>> ELSE current_plan[1].steps

\* C1: a step-execution run (_execute_agent_step) that selects a step selects
\* the first step in declared order whose execution_res is empty, and from
\* research_team, once every step of the current plan has a non-empty
\* execution_res, the next node is reporter.
C1_StepOrder ==
    [][ /\ (node = "coder" /\ flow_last'.node = "coder" /\ flow_last'.selected # 0) =>
              LET i == flow_last'.selected
              IN  /\ i \in 1..Len(PlanStepsNow)
                  /\ PlanStepsNow[i].execution_res = ""
                  /\ \A j \in 1..(i - 1) : PlanStepsNow[j].execution_res # ""
        /\ (node = "coder" /\ flow_last'.node = "coder" /\ flow_last'.selected = 0) =>
              \A j \in 1..Len(PlanStepsNow) : PlanStepsNow[j].execution_res # ""
        /\ (/\ node = "research_team"
            /\ \A j \in 1..Len(PlanStepsNow) : PlanStepsNow[j].execution_res # "") =>
              node' = "reporter"
      ]_vars

\* Two processing steps were executed in order, each by its own run, and
\* research_team then routed to reporter.
C1_Witness ==
    /\ node = "reporter"
    /\ flow_last.node = "research_team"
    /\ Len(PlanStepsNow) = 2
    /\ PlanStepsNow[1].execution_res = "r"
    /\ PlanStepsNow[2].execution_res = "r"
    /\ observations = <<"r", "r">>

(***************************************************************************)
(* Claims about the filesystem tools                                       *)
(***************************************************************************)
SameFile(p, q) == ResolvePath(p).key = ResolvePath(q).key

\* A read_file call with the default offset and limit that found the file
\* the last successful change was made to.
ReadsBack(tool) ==
    /\ fs_change.tool = tool
    /\ fs_last.tool = "read_file"
    /\ fs_last.ok
    /\ fs_last.offset = 0
    /\ fs_last.limit = DefaultLimit
    /\ SameFile(fs_last.file_path, fs_change.file_path)

\* The text with the one occurrence of old_string replaced by new_string.
OneSubstitution(text, old_string, new_string) ==
    LET i == CHOOSE i \in 1..(Len(text) + 1) :
                 /\ i + Len(old_string) - 1 <= Len(text)
                 /\ SubSeq(text, i, i + Len(old_string) - 1) = old_string
    IN  SubSeq(text, 1, i - 1) \o new_string
          \o SubSeq(text, i + Len(old_string), Len(text))

UniqueEdit ==
    /\ ~fs_change.replace_all
    /\ Cardinality({i \in 1..(Len(fs_change.before) + 1) :
          /\ i + Len(fs_change.old_string) - 1 <= Len(fs_change.before)
          /\ SubSeq(fs_change.before, i, i + Len(fs_change.old_string) - 1)
                = fs_change.old_string}) = 1

\* The text line by line, each line after its number in six columns and a
\* tab; the reminder for an empty or blank text.
LineNumbered(text) ==
    IF Strip(text) = "" THEN EmptyReminder
    ELSE LET lines == SplitLines(text, "")
         IN  JoinWith([i \in 1..Len(lines) |->
                          PadLeft(ToString(i), 6) \o "\t" \o lines[i]], "\n")

\* C10 as stated: after a write, ls lists the path and read_file returns the
\* text; after an edit of a unique old_string, read_file returns the content
\* with that one occurrence replaced.
C10_Original ==
    /\ (fs_last.tool = "ls" /\ fs_change.tool = "write_file") =>
          \E i \in 1..Len(fs_last.listing) : fs_last.listing[i] = fs_change.file_path
    /\ ReadsBack("write_file") => fs_last.output = fs_change.content
    /\ (ReadsBack("edit_file") /\ UniqueEdit) =>
          fs_last.output = OneSubstitution(fs_change.before, fs_change.old_string,
                                           fs_change.new_string)

\* C10, amended: after a write, ls lists the path's workspace-relative key and
\* read_file returns the text with numbered lines (the reminder when the text
\* is empty or blank); after an edit of a unique old_string, read_file returns,
\* in the same rendering, the content with that one occurrence replaced.
C10_RoundTrip ==
    /\ (fs_last.tool = "ls" /\ fs_change.tool = "write_file") =>
          \E i \in 1..Len(fs_last.listing) :
              fs_last.listing[i] = ResolvePath(fs_change.file_path).key
    /\ ReadsBack("write_file") => fs_last.output = LineNumbered(fs_change.content)
    /\ (ReadsBack("edit_file") /\ UniqueEdit) =>
          fs_last.output = LineNumbered(OneSubstitution(fs_change.before,
                                                        fs_change.old_string,
                                                        fs_change.new_string))

\* "ab" was replaced in the two-line file b.txt and the file read back.
C10_Witness ==
    /\ ReadsBack("edit_file")
    /\ UniqueEdit
    /\ fs_change.before = "ab\nc"
    /\ fs_change.old_string = "ab"
    /\ fs_change.new_string = "c"
    /\ fs_last.output = "     1\tc\n     2\tc"

\* the content the tools see for a key: the file map's entry, else the disk's
FileContent(map, on_disk, key) ==
    IF map[key] # None THEN map[key] ELSE on_disk[key]

\* C11: when the file's content holds old_string more than once, edit_file
\* without replace_all returns the error that names the number of occurrences,
\* and the file's content, in the file map and on disk, stays as it was.
C11_AmbiguousEdit ==
    [][\A file_path \in FsPaths, old_string \in OldStrings, new_string \in NewStrings :
          LET path == ResolvePath(file_path)
              content == FileContent(files, disk, path.key)
          IN  (/\ fs_last'.tool = "edit_file"
               /\ fs_last'.file_path = file_path
               /\ path.error = ""
               /\ content # None
               /\ Count(content[1], old_string) > 1
               /\ EditFile(file_path, old_string, new_string, FALSE))
              => /\ ~fs_last'.ok
                 /\ fs_last'.output =
                        AmbiguousError(old_string, Count(content[1], old_string))
                 /\ disk' = disk
                 /\ \A key \in FsKeys :
                        FileContent(files', disk', key) = FileContent(files, disk, key)]_vars

\* "aab" was written and an edit of "a" without replace_all was refused.
C11_Witness ==
    /\ fs_last.tool = "edit_file"
    /\ ~fs_last.ok
    /\ fs_last.output = AmbiguousError("a", 2)
    /\ \E key \in FsKeys : files[key] = Some("aab")

(***************************************************************************)
(* Claims about adaptive summarization, checked under SpecSumm             *)
(***************************************************************************)

\* the history is the single synthetic summary message and nothing else
IsSummaryOnly(messages) ==
    /\ Len(messages) = 1
    /\ messages[1].type = "human"
    /\ StartsWith(messages[1].content, SummaryPrefix)

\* C2: for any message history and any positive max_tokens_before_summary, the
\* list budget enforcement returns counts at most max_tokens_before_summary
\* approximate tokens, or it is the single synthetic summary message alone.
C2_WithinBudget ==
    summ_pc = "returned" =>
        \/ TokenCounter(summ_result.messages) <= summ_max_tokens
        \/ IsSummaryOnly(summ_result.messages)

\* A history over the budget came back rewritten, within the budget, as a
\* summary followed by messages that were kept.
C2_Witness ==
    /\ summ_pc = "returned"
    /\ TokenCounter(summ_messages) > summ_max_tokens
    /\ summ_result.changed
    /\ Len(summ_result.messages) > 1
    /\ StartsWith(summ_result.messages[1].content, SummaryPrefix)
    /\ TokenCounter(summ_result.messages) <= summ_max_tokens

\* the message at i calls tools and the messages right after it are the
\* results of exactly its tool-call ids, one each
FollowedByItsResults(messages, i) ==
    LET ids == ExtractToolCallIds(messages[i])
        n == Cardinality(ids)
    IN  /\ i + n <= Len(messages)
        /\ \A k \in 1..n : messages[i + k].type = "tool"
        /\ {messages[i + k].tool_call_id : k \in 1..n} = ids
        /\ i + n < Len(messages) => messages[i + n + 1].type # "tool"

\* the tool result at j answers a tool-calling message before it, with only
\* results of that message in between
HasOrigin(messages, j) ==
    \E i \in 1..(j - 1) :
        /\ IsToolCalling(messages[i])
        /\ j - i <= Cardinality(ExtractToolCallIds(messages[i]))
        /\ \A k \in (i + 1)..j :
              /\ messages[k].type = "tool"
              /\ messages[k].tool_call_id \in ExtractToolCallIds(messages[i])

Paired(messages) ==
    \A i \in DOMAIN messages :
        /\ IsToolCalling(messages[i]) => FollowedByItsResults(messages, i)
        /\ messages[i].type = "tool" => HasOrigin(messages, i)

\* C3: in every history budget enforcement produces, each assistant message
\* with tool calls is immediately followed by the tool results of exactly its
\* tool-call ids, and no tool result is left without the assistant message it
\* answers.
C3_ToolPairs ==
    (summ_pc = "returned" /\ summ_result.changed) => Paired(summ_result.messages)

\* Enforcement rewrote a history that held an unanswered tool call or a stray
\* tool result, and the history it produced still has a tool call with its
\* results.
C3_Witness ==
    /\ summ_pc = "returned"
    /\ summ_result.changed
    /\ ~Paired(summ_messages)
    /\ \E i \in DOMAIN summ_result.messages : IsToolCalling(summ_result.messages[i])
    /\ \E i \in DOMAIN summ_result.messages : summ_result.messages[i].type = "tool"

(***************************************************************************)
(* Claims about the patch-tool-calls middleware, checked under SpecPatch   *)
(***************************************************************************)

\* the corrected list of the last update, without the removal sentinel
Corrected == Tail(patch_update)

\* no tool result after the assistant message at i answers the call id
Unanswered(messages, i, id) ==
    ~\E j \in (i + 1)..Len(messages) :
        messages[j].type = "tool" /\ messages[j].tool_call_id = id

Synthesized(message) == message.type = "tool" /\ message.id = ""

\* right after the message at p come synthesized results only, up to one that
\* carries the call's id and the tool's name
PatchedRightAfter(messages, p, tool_call) ==
    \E q \in (p + 1)..Len(messages) :
        /\ \A r \in (p + 1)..q : Synthesized(messages[r])
        /\ messages[q].tool_call_id = tool_call.id
        /\ messages[q].name = tool_call.name

EveryCallHasResult(messages) ==
    \A p \in DOMAIN messages : \A k \in DOMAIN messages[p].tool_calls :
        ~Unanswered(messages, p, messages[p].tool_calls[k].id)

\* C12: after before_agent, every assistant tool call without a matching tool
\* result has a synthesized result with its id and tool name right after the
\* assistant message, and every tool call of the resulting history has a result.
C12_DanglingCallsPatched ==
    patch_runs >= 1 =>
        /\ \A i \in DOMAIN patch_input : \A k \in DOMAIN patch_input[i].tool_calls :
              Unanswered(patch_input, i, patch_input[i].tool_calls[k].id)
              => \E p \in DOMAIN Corrected :
                    /\ Corrected[p] = patch_input[i]
                    /\ PatchedRightAfter(Corrected, p, patch_input[i].tool_calls[k])
        /\ EveryCallHasResult(Corrected)
        /\ EveryCallHasResult(patch_messages)

\* An assistant message with call 123 was directly followed by a human
\* message, and the update holds the synthesized result between them.
C12_Witness ==
    /\ patch_runs = 1
    /\ \E i \in DOMAIN patch_input :
          /\ i < Len(patch_input)
          /\ patch_input[i].tool_calls = <<NamedToolCall("get_events", "123")>>
          /\ patch_input[i + 1].type = "human"
          /\ Unanswered(patch_input, i, "123")
    /\ \E p \in DOMAIN Corrected :
          /\ p + 1 < Len(Corrected)
          /\ Corrected[p].type = "ai"
          /\ Synthesized(Corrected[p + 1])
          /\ Corrected[p + 1].tool_call_id = "123"
          /\ Corrected[p + 1].name = "get_events"
          /\ Corrected[p + 2].type = "human"

\* the messages of a list that are not synthesized results, in order
RECURSIVE Originals(_)
Originals(messages) ==
    IF messages = <<>> THEN <<>>
    ELSE (IF Synthesized(Head(messages)) THEN <<>> ELSE <<Head(messages)>>)
         \o Originals(Tail(messages))

\* every tool-calling message is directly followed by results for all its calls
AnsweredInPlace(messages) ==
    \A i \in DOMAIN messages : \A k \in DOMAIN messages[i].tool_calls :
        \E j \in (i + 1)..ResultsEnd(messages, i) :
            messages[j].tool_call_id = messages[i].tool_calls[k].id

\* C13: the update of before_agent is always the removal sentinel followed by
\* the corrected list, also when no call is dangling; the corrected list holds
\* every original message unchanged and in order, and only synthesized tool
\* results are added.
C13_FullReplace ==
    patch_runs >= 1 =>
        /\ Head(patch_update) = RemoveAllMessages
        /\ Originals(Corrected) = patch_input
        /\ AnsweredInPlace(patch_input) => Corrected = patch_input

\* A history with an answered call and nothing dangling still gave a full
\* replace: the sentinel and then the same messages.
C13_Witness ==
    /\ patch_runs = 1
    /\ \E i \in DOMAIN patch_input : patch_input[i].tool_calls # <<>>
    /\ AnsweredInPlace(patch_input)
    /\ patch_update = <<RemoveAllMessages>> \o patch_input

\* C14: repair is idempotent: a history whose tool calls all have their results
\* is, after the update is merged, exactly the same history, and a second
\* repair leaves the once-repaired history as it is.
C14_Idempotent ==
    /\ (patch_runs >= 1 /\ AnsweredInPlace(patch_input)) => patch_messages = patch_input
    /\ patch_runs >= 2 => patch_messages = patch_input

\* The first repair synthesized a result, and the second repair returned the
\* history with that result in it unchanged.
C14_Witness ==
    /\ patch_runs = 2
    /\ patch_messages = patch_input
    /\ \E i \in DOMAIN patch_messages :
          patch_messages[i].type = "tool" /\ patch_messages[i].id = "uuid-1"

(***************************************************************************)
(* Claims about compute_summary_budget, checked under SpecBudget           *)
(***************************************************************************)

\* max(token_limit - safety_margin, token_limit / 2), safety_margin the larger
\* of 10% of token_limit and 6000
UpperBound(token_limit) ==
    Max(token_limit - Max(token_limit \div 10, 6000), token_limit \div 2)

\* the two values the specification gives
BudgetExamples ==
    /\ (csb_token_limit = 200000 /\ csb_requested = None) => csb_result = Some(180000)
    /\ (csb_token_limit = 8192 /\ csb_requested = None) => csb_result = Some(4096)

\* C15 as stated: for every token_limit a requested budget is clamped into
\* [2000, UpperBound]; inside the interval it passes through, above it is
\* reduced to the bound.
C15_Original ==
    csb_result # None =>
        /\ BudgetExamples
        /\ csb_requested # None =>
              /\ 2000 <= csb_result[1] /\ csb_result[1] <= UpperBound(csb_token_limit)
              /\ (2000 <= csb_requested[1]
                  /\ csb_requested[1] <= UpperBound(csb_token_limit))
                 => csb_result = csb_requested
              /\ csb_requested[1] > UpperBound(csb_token_limit)
                 => csb_result[1] = UpperBound(csb_token_limit)

\* C15, amended: the examples hold; for a token_limit of at least 4000 a
\* requested budget is clamped into [2000, UpperBound]: unchanged inside the
\* interval, reduced to the bound above it, raised to 2000 below it.  For a
\* positive token_limit under 4000 the result is 2000, and for a token_limit
\* of zero or less it is 4000, whatever is requested.
C15_Clamped ==
    csb_result # None =>
        /\ BudgetExamples
        /\ (csb_requested # None /\ csb_token_limit >= 4000) =>
              /\ 2000 <= csb_result[1] /\ csb_result[1] <= UpperBound(csb_token_limit)
              /\ (2000 <= csb_requested[1]
                  /\ csb_requested[1] <= UpperBound(csb_token_limit))
                 => csb_result = csb_requested
              /\ csb_requested[1] > UpperBound(csb_token_limit)
                 => csb_result[1] = UpperBound(csb_token_limit)
              /\ csb_requested[1] < 2000 => csb_result[1] = 2000
        /\ (csb_requested # None /\ 0 < csb_token_limit /\ csb_token_limit < 4000) =>
              csb_result[1] = 2000
        /\ csb_token_limit <= 0 => csb_result[1] = 4000

\* A request of 190000 at a limit of 200000 came back as 180000.
C15_Witness ==
    /\ csb_token_limit = 200000
    /\ csb_requested = Some(190000)
    /\ csb_result = Some(180000)

(***************************************************************************)
(* Claims about the long-term filesystem tools, checked under SpecLongTerm *)
(***************************************************************************)

\* file_path is /memories followed by key
UnderMemories(file_path, key) == file_path = "/memories" \o key

\* the store entries a step changed
StoreChanged == {key \in LtStoreKeys : lt_store'[key] # lt_store[key]}

\* C16: for every path beginning with /memories/, write_file and edit_file
\* leave the session file map unchanged and touch the durable store only under
\* the path with the prefix stripped, where a successful write leaves the
\* content written and a successful edit the edited content; ls in long-term
\* mode returns the session files together with every durable-store entry
\* under its /memories/ path, and nothing else.
C16_LongTermRouting ==
    [][/\ \A file_path \in LtPaths, content \in LtContents :
             (LtWriteFile(file_path, content) /\ StartsWith(file_path, "/memories/")) =>
                 /\ lt_files' = lt_files
                 /\ \A key \in StoreChanged : UnderMemories(file_path, key)
                 /\ lt_last'.ok =>
                       \E key \in LtStoreKeys : /\ UnderMemories(file_path, key)
                                                /\ lt_store'[key] = Some(content)
       /\ \A file_path \in LtPaths, old_string \in LtOldStrings,
             new_string \in LtNewStrings, replace_all \in BOOLEAN :
             (LtEditFile(file_path, old_string, new_string, replace_all)
              /\ StartsWith(file_path, "/memories/")) =>
                 /\ lt_files' = lt_files
                 /\ \A key \in StoreChanged : UnderMemories(file_path, key)
                 /\ lt_last'.ok =>
                       \E key \in LtStoreKeys :
                          /\ UnderMemories(file_path, key)
                          /\ lt_store[key] # None
                          /\ Contains(lt_store[key][1], old_string)
                          /\ lt_store'[key] # None
                          /\ Contains(lt_store'[key][1], new_string)
                          /\ old_string # new_string => lt_store'[key] # lt_store[key]
       /\ LtLs =>
             /\ \A file_path \in LtPaths : lt_files[file_path] # None
                                           => file_path \in lt_last'.output
             /\ \A key \in LtStoreKeys : lt_store[key] # None
                                         => "/memories" \o key \in lt_last'.output
             /\ \A file_path \in lt_last'.output :
                   \/ file_path \in LtPaths /\ lt_files[file_path] # None
                   \/ \E key \in LtStoreKeys : /\ UnderMemories(file_path, key)
                                               /\ lt_store[key] # None
      ]_vars

\* A write to /memories/journal.txt landed in the store under /journal.txt and
\* a later ls listed it beside a session file.
C16_Witness ==
    /\ lt_last.tool = "ls"
    /\ lt_last.output = {"/local.txt", "/memories/journal.txt"}
    /\ lt_store["/journal.txt"] = Some("aa")
    /\ lt_files["/memories/journal.txt"] = None

(***************************************************************************)
(* Claims about disabled persistence and failures, checked under           *)
(* SpecChatFaulty                                                          *)
(***************************************************************************)

\* C17 as stated: with checkpoint_saver false every processing call returns
\* false and leaves the staging store and the durable store unchanged.
C17_Original ==
    [][~checkpoint_saver => /\ ~last_call'.result
                            /\ store' = store
                            /\ db' = db]_vars

\* C17, amended: with the manager's checkpoint_saver false no call changes the
\* durable store; chat_stream_message, when the environment flag reads false
\* at the call, returns false for every finish_reason and leaves the staging
\* store unchanged; process_stream_message returns false for invalid input and
\* for a terminal finish_reason, but, unless the staging store raises, it
\* stages every valid chunk and returns true for a valid chunk with a
\* non-terminal finish_reason.
C17_Disabled ==
    [][/\ ~checkpoint_saver => db' = db
       /\ (~saver_env /\ chat_calls' # chat_calls) =>
             \A c \in Callers, t \in ThreadIds, msg \in ChunkTexts, f \in FinishReasons :
                (FaultyStart(c) /\ last_call'.thread_id = t
                 /\ ChatStreamMessage(c, t, msg, f)) =>
                      /\ ~last_call'.result
                      /\ store' = store
                      /\ call' = call
       /\ (~checkpoint_saver /\ chat_calls' # chat_calls) =>
             \A c \in Callers, t \in ThreadIds, msg \in ChunkTexts, f \in FinishReasons :
                (FaultyStart(c) /\ InvalidInput(t, msg) /\ last_call'.thread_id = t
                 /\ ProcessStreamMessage(c, t, msg, f)) =>
                      /\ ~last_call'.result
                      /\ store' = store
                      /\ call' = call
       /\ (~checkpoint_saver /\ chat_calls' = chat_calls) =>
             \A c \in Callers :
                /\ PutChunk(c) =>
                      LET t == call[c].thread_id
                      IN  /\ Len(store'[t]) > Len(store[t])
                          /\ store'[t][Len(store'[t])].text = call[c].message
                          /\ IF Terminal(call[c].finish_reason)
                             THEN call'[c].pc = "search" /\ last_call' = last_call
                             ELSE /\ call'[c] = IdleCall
                                  /\ last_call' = [thread_id |-> t, result |-> TRUE,
                                                   persisted |-> FALSE]
                /\ PersistCompleteConversation(c) =>
                      /\ call'[c] = IdleCall
                      /\ last_call' = [thread_id |-> call[c].thread_id,
                                       result |-> FALSE, persisted |-> FALSE]]_vars

\* With persistence disabled a chunk was staged for t1 and a later call for t1
\* returned false; nothing was persisted.
C17_Witness ==
    /\ ~checkpoint_saver
    /\ chat_calls >= 2
    /\ store["t1"] # <<>>
    /\ last_call = [thread_id |-> "t1", result |-> FALSE, persisted |-> FALSE]
    /\ db = <<>>

\* C18: process_stream_message always returns a boolean; it returns false for
\* an empty or non-string thread_id, for an empty message, when the staging
\* store or the database raises and when there is no connection; a terminal
\* call returns true only when the durable store took the record.
C18_NeverPropagates ==
    [][/\ last_call'.result \in BOOLEAN
       /\ chat_calls' # chat_calls =>
             /\ \A c \in Callers, t \in ThreadIds, msg \in ChunkTexts,
                   f \in FinishReasons :
                   /\ (FaultyStart(c) /\ (t = "" \/ msg = "")
                       /\ ProcessStreamMessage(c, t, msg, f)) =>
                         /\ last_call' = [thread_id |-> t, result |-> FALSE,
                                          persisted |-> FALSE]
                         /\ call' = call
                   /\ (FaultyStart(c) /\ last_call'.thread_id = t
                       /\ ProcessStreamMessageGetFails(c, t, msg, f)) =>
                         ~last_call'.result /\ store' = store /\ db' = db
             /\ \A c \in Callers, t \in NonStringThreadIds, msg \in ChunkTexts,
                   f \in FinishReasons :
                   (FaultyStart(c) /\ last_call'.thread_id = ToString(t)
                    /\ ProcessStreamMessageNonString(c, t, msg, f)) =>
                      ~last_call'.result /\ store' = store /\ db' = db
       /\ chat_calls' = chat_calls =>
             \A c \in Callers :
                /\ StoreRaises(c) => ~last_call'.result /\ db' = db
                /\ (PersistCompleteConversation(c)
                    /\ (~checkpoint_saver \/ backend = "none")) =>
                      /\ call'[c] = IdleCall
                      /\ last_call' = [thread_id |-> call[c].thread_id,
                                       result |-> FALSE, persisted |-> FALSE]
                /\ (PersistFind(c, TRUE) \/ PersistWrite(c, TRUE) \/ Commit(c, TRUE)) =>
                      /\ db' = db
                      /\ IF backend = "postgres"
                         THEN call'[c].pc = "rollback" /\ last_call' = last_call
                         ELSE call'[c].pc = "idle" /\ ~last_call'.result
                /\ Rollback(c) =>
                      /\ call'[c].pc = "idle"
                      /\ last_call' = [thread_id |-> call[c].thread_id,
                                       result |-> FALSE, persisted |-> FALSE]
                      /\ db' = db
                /\ (/\ call[c].pc # "idle"
                    /\ call'[c].pc = "idle"
                    /\ Terminal(call[c].finish_reason)
                    /\ last_call'.result) =>
                      /\ call[c].pc = IF backend = "postgres" THEN "commit" ELSE "write"
                      /\ db' # db
                      /\ \E i \in 1..Len(db') :
                            /\ db'[i].thread_id = call[c].thread_id
                            /\ db'[i].messages = call[c].messages
                            /\ db'[i].ts = call[c].ts
      ]_vars

\* A terminal call for t1 got as far as the database, the database raised, and
\* the call returned false with nothing persisted, after a chunk with an
\* empty message had been refused.
C18_Witness ==
    /\ checkpoint_saver
    /\ backend # "none"
    /\ chat_calls >= 2
    /\ store["t1"] # <<>>
    /\ NoCallInFlight
    /\ last_call = [thread_id |-> "t1", result |-> FALSE, persisted |-> FALSE]
    /\ db = <<>>

(***************************************************************************)
(* Claims about the attempt ceiling and the planner                        *)
(***************************************************************************)

\* The place of the first step without a result, 0 when every step has one.
PendingStep ==
    IF \A j \in 1..Len(PlanStepsNow) : PlanStepsNow[j].execution_res # "" THEN 0
    ELSE CHOOSE i \in 1..Len(PlanStepsNow) :
            /\ PlanStepsNow[i].execution_res = ""
            /\ \A j \in 1..(i - 1) : PlanStepsNow[j].execution_res # ""

\* The pending step has used up its attempts.
Exhausted ==
    /\ PendingStep # 0
    /\ step_attempts[PlanStepsNow[PendingStep].title] >= MaxAttempts

\* The step node found the pending step exhausted and sent the run to planner.
GaveUp ==
    /\ node = "planner"
    /\ flow_last.node = "coder"
    /\ flow_last.selected # 0
    /\ ~flow_last.invoked

\* C19, first half: once the attempt count of the pending step has reached the
\* ceiling, the step node routes to planner without invoking the agent and
\* leaves the step unresolved.
C19_CeilingRoutesToPlanner ==
    [][(node = "coder" /\ Exhausted) =>
          /\ node' = "planner"
          /\ ~flow_last'.invoked
          /\ current_plan' = current_plan
          /\ step_attempts' = step_attempts]_vars

\* C19: once the attempt count of the pending step has reached the ceiling the
\* step node routes to planner without invoking the agent and leaves the step
\* unresolved; the workflow does not retry without end, so the agent is never
\* run for a step of the plan more often than the ceiling allows while the
\* step stays without a result; and once the step node has given up, the run
\* eventually reaches reporter or stops and does not go round planner,
\* research_team and the step node forever.
C19_NoEndlessRetry ==
    /\ C19_CeilingRoutesToPlanner
    /\ [](\A t \in StepTitles : agent_runs[t] <= MaxAttempts)
    /\ [](GaveUp => <>(node = "reporter" \/ ~ENABLED FlowNext))

\* The agent was run for step 1 once more than the ceiling allows, each time
\* returning an empty answer: the step is still pending, no attempt is counted
\* in the state, and research_team is about to send the run to the step node
\* again.
C19_Witness ==
    /\ node = "research_team"
    /\ flow_last.node = "coder" /\ flow_last.invoked
    /\ flow_last.selected = 1
    /\ PendingStep = 1
    /\ agent_runs[StepTitle(1)] = MaxAttempts + 1
    /\ step_attempts = NoAttempts

\* current_plan holds a validated Plan: its fields are there, its steps are
\* steps, and the plan is no raw string.
ValidatedPlan(plan) ==
    /\ plan # None
    /\ DOMAIN plan[1] = {"locale", "has_enough_context", "steps"}
    /\ plan[1].has_enough_context \in BOOLEAN
    /\ plan[1].steps \in StepLists

\* C20 as stated: every execution of the planner node increments
\* plan_iterations by one and leaves a validated Plan in current_plan.
C20_Original ==
    [][node = "planner" => /\ plan_iterations' = plan_iterations + 1
                           /\ ValidatedPlan(current_plan')]_vars

\* C20, amended: an execution of the planner node that is below the iteration
\* ceiling and whose plan generation does not raise increments plan_iterations
\* by one and leaves a validated Plan in current_plan; an execution at the
\* ceiling, or one whose plan generation raises, leaves plan_iterations and
\* current_plan as they were.
C20_PlannerCommits ==
    [][node = "planner" =>
          /\ (plan_iterations >= max_plan_iterations \/ PlannerNode(None)) =>
                /\ plan_iterations' = plan_iterations
                /\ current_plan' = current_plan
          /\ (plan_iterations < max_plan_iterations /\ ~PlannerNode(None)) =>
                /\ plan_iterations' = plan_iterations + 1
                /\ ValidatedPlan(current_plan')]_vars

\* The planner ran twice and left the second plan, with one pending step, in
\* current_plan.
C20_Witness ==
    /\ flow_last.node = "planner"
    /\ plan_iterations = 2
    /\ ValidatedPlan(current_plan)
    /\ Len(current_plan[1].steps) = 1
    /\ current_plan[1].steps[1].execution_res = ""


(***************************************************************************)
(* Claims: the planner's routing                                           *)
(***************************************************************************)
\* Everything of the workflow state but the position and the record of the
\* last node run.
flowData == <<current_plan, plan_iterations, configVars, background_investigation_results,
              step_attempts, observations, researcher_reports, final_report, locale,
              research_topic>>

\* C21: a planner entered with plan_iterations >= max_plan_iterations
\* generates no plan and changes no state; it routes to research_team when the
\* existing plan has steps and to reporter otherwise.
C21_CeilingKeepsState ==
    [][(node = "planner" /\ plan_iterations >= max_plan_iterations)
          => /\ UNCHANGED flowData
             /\ node' = IF current_plan # None /\ current_plan[1].steps # <<>>
                        THEN "research_team" ELSE "reporter"]_vars

\* The planner ran at the ceiling with a plan that has steps, and went on to
\* research_team.
C21_Witness ==
    /\ flow_last.node = "planner"
    /\ plan_iterations >= max_plan_iterations
    /\ current_plan # None /\ current_plan[1].steps # <<>>
    /\ node = "research_team"
    /\ ~auto_accepted_plan
    /\ observations = <<>>

\* C22: below the ceiling a planner run either stores a new plan and routes
\* by it (with steps: research_team when plans are auto-accepted, else
\* human_feedback; without steps: reporter when the plan claims enough
\* context, else human_feedback), or, when generation failed, changes no
\* state and routes to reporter if plan_iterations > 0 and ends otherwise.
C22_PlannerRouting ==
    [][(node = "planner" /\ plan_iterations < max_plan_iterations)
          => \/ /\ plan_iterations' = plan_iterations + 1
                /\ current_plan' # None
                /\ node' = IF current_plan'[1].steps # <<>>
                           THEN (IF auto_accepted_plan THEN "research_team"
                                 ELSE "human_feedback")
                           ELSE IF current_plan'[1].has_enough_context THEN "reporter"
                           ELSE "human_feedback"
             \/ /\ UNCHANGED flowData
                /\ node' = IF plan_iterations > 0 THEN "reporter" ELSE "__end__"]_vars

\* An auto-accepted plan with steps took the planner straight to
\* research_team, below the ceiling.
C22_Witness ==
    /\ flow_last.node = "planner"
    /\ auto_accepted_plan
    /\ plan_iterations = 1 /\ max_plan_iterations > 1
    /\ current_plan # None /\ current_plan[1].steps # <<>>
    /\ node = "research_team"

\* C23: no plan in the workflow state has both steps and
\* has_enough_context = TRUE.
C23_StepsImplyResearch ==
    current_plan # None
        => ~(current_plan[1].steps # <<>> /\ current_plan[1].has_enough_context)

\* The planner has just stored a plan with two steps.
C23_Witness ==
    /\ flow_last.node = "planner"
    /\ plan_iterations > 0
    /\ current_plan # None
    /\ Len(current_plan[1].steps) = MaxPlanSteps
    /\ ~current_plan[1].has_enough_context
    /\ node = "human_feedback"

(***************************************************************************)
(* Claims: human feedback                                                  *)
(***************************************************************************)
\* The feedback values that begin with [EDIT_PLAN] and with [ACCEPTED], in
\* any case.
EditPlanFeedbacks == {f \in Feedbacks : StartsWith(Upper(f), "[EDIT_PLAN]")}
AcceptedFeedbacks == {f \in Feedbacks : StartsWith(Upper(f), "[ACCEPTED]")}

\* C24: human_feedback suspends for a feedback value exactly when the plan
\* is not auto-accepted.  A value that begins with [EDIT_PLAN], in any case,
\* is recorded as a message and control returns to planner; one that begins
\* with [ACCEPTED] goes on to research_team when current_plan is a Plan; any
\* other value is a fatal error.
C24_FeedbackProtocol ==
    [][node = "human_feedback"
          => LET last == flow_last'
                 edit == last.feedback \in EditPlanFeedbacks
                 accept == last.feedback \in AcceptedFeedbacks
             IN  /\ last.node = "human_feedback"
                 /\ last.interrupted = ~auto_accepted_plan
                 /\ (last.interrupted /\ edit)
                       => node' = "planner" /\ last.feedback_message = last.feedback
                 /\ (last.interrupted /\ ~edit /\ accept /\ current_plan # None)
                       => node' = "research_team" /\ last.feedback_message = ""
                 /\ (last.interrupted /\ ~edit /\ ~accept) => node' = "__error__"
                 /\ ~last.interrupted => node' # "__error__" /\ node' # "planner"]_vars

\* A lower-case [edit_plan] sent the run back to planner with the feedback
\* recorded.
C24_Witness ==
    /\ flow_last.node = "human_feedback"
    /\ flow_last.interrupted
    /\ flow_last.feedback = "[edit_plan]"
    /\ flow_last.feedback_message = "[edit_plan]"
    /\ node = "planner"

(***************************************************************************)
(* Claims: step execution                                                  *)
(***************************************************************************)
\* The steps a researcher or coder run changed.
ChangedSteps == {j \in 1..Len(PlanStepsNow) : current_plan'[1].steps[j] # PlanStepsNow[j]}

\* The step is the first one without a result.
FirstPending(j) ==
    /\ PlanStepsNow[j].execution_res = ""
    /\ \A k \in 1..(j - 1) : PlanStepsNow[k].execution_res # ""

StepNodeRuns ==
    /\ node \in {"researcher", "coder"}
    /\ current_plan # None
    /\ current_plan' # None
    /\ Len(current_plan'[1].steps) = Len(PlanStepsNow)

\* C25 as stated: a researcher or coder run fills the result of at most one
\* step, the first pending one, and leaves every other step as it was.
C25_Original ==
    [][(node \in {"researcher", "coder"} /\ current_plan # None)
          => /\ StepNodeRuns
             /\ \A j \in ChangedSteps : FirstPending(j)]_vars

\* C25: a coder run fills the result of at most one step, the first pending
\* one, and leaves every other step as it was; a researcher run, one
\* consolidated deep-agent run, gives every pending step the completion note
\* and leaves the result of every completed step as it was.
C25_StepFilling ==
    [][(node \in {"researcher", "coder"} /\ current_plan # None)
          => /\ StepNodeRuns
             /\ node = "coder" => \A j \in ChangedSteps : FirstPending(j)
             /\ node = "researcher"
                   => \A j \in 1..Len(PlanStepsNow) :
                         current_plan'[1].steps[j] =
                            IF PlanStepsNow[j].execution_res # "" THEN PlanStepsNow[j]
                            ELSE [PlanStepsNow[j] EXCEPT
                                     !.execution_res = DeepAgentCompleted]]_vars

\* A researcher run has completed both steps of the plan at once.
C25_Witness ==
    /\ flow_last.node = "researcher" /\ flow_last.invoked
    /\ Len(PlanStepsNow) = MaxPlanSteps
    /\ \A j \in 1..Len(PlanStepsNow) : PlanStepsNow[j].execution_res = DeepAgentCompleted

\* C26: step execution never changes a step that has a result and never
\* selects one: only the planner, storing a new plan, replaces such a step.
C26_CompletedStepsKept ==
    [][(node # "planner" /\ current_plan # None)
          => /\ current_plan' # None
             /\ Len(current_plan'[1].steps) = Len(PlanStepsNow)
             /\ \A j \in 1..Len(PlanStepsNow) :
                   PlanStepsNow[j].execution_res # ""
                      => current_plan'[1].steps[j] = PlanStepsNow[j]
             /\ flow_last'.selected # 0
                   => PlanStepsNow[flow_last'.selected].execution_res = ""]_vars

\* A researcher run has completed the second step of a plan and left the
\* result of the first step as it was.
C26_Witness ==
    /\ flow_last.node = "researcher" /\ flow_last.invoked
    /\ Len(PlanStepsNow) = MaxPlanSteps
    /\ PlanStepsNow[1].execution_res = "done"
    /\ PlanStepsNow[2].execution_res = DeepAgentCompleted

\* C27 as stated: after its deep-agent run the researcher routes to __end__.
C27_Original ==
    [][(node = "researcher" /\ flow_last'.invoked) => node' = "__end__"]_vars

\* C27: after its deep-agent run the researcher routes back to
\* research_team, never to __end__; every step of the plan then has a
\* result, so research_team dispatches to reporter next.
C27_ResearcherLoopsBack ==
    [][(node = "researcher" /\ flow_last'.invoked)
          => /\ node' = "research_team"
             /\ current_plan' # None
             /\ \A j \in 1..Len(current_plan'[1].steps) :
                   current_plan'[1].steps[j].execution_res # ""]_vars

\* The researcher has run its deep agent on a plan with a pending research
\* step and handed control back to research_team.
C27_Witness ==
    /\ flow_last.node = "researcher" /\ flow_last.invoked
    /\ node = "research_team"
    /\ PlanStepsNow # <<>>
    /\ PlanStepsNow[1].step_type = "research"
    /\ PlanStepsNow[1].execution_res = DeepAgentCompleted

\* The researcher has run its deep agent.
ResearcherRan == node = "researcher" /\ flow_last'.node = "researcher" /\ flow_last'.invoked

\* The text of the run is mirrored into researcher_reports and observations.
Mirrored ==
    /\ researcher_reports' # ""
    /\ observations' = Append(observations, researcher_reports')

\* C28: the text of the researcher's run is always mirrored into
\* researcher_reports, and it becomes final_report only when it came from the
\* final_report.md file or the final_report field; text from the last message
\* or from the string rendering leaves final_report as it was.
C28_FinalReportOnlyFromArtifact ==
    [][ResearcherRan
          => /\ Mirrored
             /\ final_report' = IF flow_last'.extracted_from \in {"file", "field"}
                                THEN Some(researcher_reports') ELSE final_report]_vars

\* The deep agent's result held final_report.md as the filesystem middleware
\* stores it, with the report as its lines; the text was taken from the last
\* message and is now the final report.
C28_Witness ==
    /\ flow_last.node = "researcher" /\ flow_last.invoked
    /\ flow_last.file_shape = "file_data"
    /\ flow_last.extracted_from = "last"
    /\ researcher_reports = "answer"
    /\ final_report = Some("answer")

(***************************************************************************)
(* Claims: the coordinator                                                 *)
(***************************************************************************)
\* The call hands off to the planner.
IsHandoff(tool_call) == tool_call.name = "handoff_to_planner"

\* The call hands off and carries both arguments.
FullHandoff(tool_call) ==
    IsHandoff(tool_call) /\ tool_call.locale # "" /\ tool_call.research_topic # ""

OnwardFromCoordinator ==
    IF enable_background_investigation THEN "background_investigator" ELSE "planner"

\* C29 as stated: the coordinator goes on exactly when the response has a
\* handoff_to_planner call, with locale and research_topic taken from that
\* call; otherwise the workflow ends and both keep their values.
C29_Original ==
    [][node = "coordinator"
          => LET calls == flow_last'.tool_calls
             IN  IF \E i \in 1..Len(calls) : IsHandoff(calls[i])
                 THEN /\ node' = OnwardFromCoordinator
                      /\ \E i \in 1..Len(calls) :
                            /\ IsHandoff(calls[i])
                            /\ locale' = calls[i].locale
                            /\ research_topic' = calls[i].research_topic
                 ELSE /\ node' = "__end__"
                      /\ UNCHANGED <<locale, research_topic>>]_vars

\* C29: the coordinator goes on exactly when the response has a tool call,
\* whatever its name, and ends the workflow otherwise.  locale and
\* research_topic are taken from the first handoff_to_planner call that
\* carries both arguments, and keep their values when there is none.
C29_CoordinatorHandoff ==
    [][node = "coordinator"
          => LET calls == flow_last'.tool_calls
             IN  /\ node' = IF calls = <<>> THEN "__end__" ELSE OnwardFromCoordinator
                 /\ \A i \in 1..Len(calls) :
                       (FullHandoff(calls[i]) /\ \A j \in 1..(i - 1) : ~FullHandoff(calls[j]))
                          => /\ locale' = calls[i].locale
                             /\ research_topic' = calls[i].research_topic
                 /\ (\A i \in 1..Len(calls) : ~FullHandoff(calls[i]))
                       => UNCHANGED <<locale, research_topic>>]_vars

\* The response called another tool before handing off: the coordinator went
\* on with the locale and topic of the handoff.
C29_Witness ==
    /\ flow_last.node = "coordinator"
    /\ Len(flow_last.tool_calls) = 2
    /\ ~IsHandoff(flow_last.tool_calls[1])
    /\ node \in {"planner", "background_investigator"}
    /\ locale = "fr-FR" /\ research_topic = "topic"

(***************************************************************************)
(* Claims: the iteration counter                                           *)
(***************************************************************************)
\* C30: a run started with plan_iterations = 0 never has more than
\* max_plan_iterations plans generated, whatever feedback and returns to the
\* planner occur, and human_feedback leaves plan_iterations as it is.
C30_IterationsBounded ==
    /\ [](plan_iterations <= max_plan_iterations)
    /\ [][node = "human_feedback" => plan_iterations' = plan_iterations]_vars

\* With the last plan the ceiling allows generated, an [EDIT_PLAN] feedback
\* has sent the run back to the planner.
C30_Witness ==
    /\ plan_iterations = max_plan_iterations
    /\ max_plan_iterations = MaxPlanIterations
    /\ flow_last.node = "human_feedback"
    /\ flow_last.feedback_message # ""
    /\ node = "planner"

(***************************************************************************)
(* Claims: progress of step execution                                      *)
(***************************************************************************)
\* The number of steps of a list that have a result.
NumExecuted(steps) == Cardinality({j \in 1..Len(steps) : steps[j].execution_res # ""})

\* C31: every run of the per-step path that invokes the agent and returns
\* leaves more steps with a result than it found, so a step is executed at
\* most once.
C31_StepProgress ==
    [][(node = "coder" /\ flow_last'.node = "coder" /\ flow_last'.invoked
                        /\ node' = "research_team")
          => /\ current_plan' # None
             /\ NumExecuted(current_plan'[1].steps) > NumExecuted(PlanStepsNow)]_vars

\* The coder's agent was invoked and returned an empty answer: the step it
\* selected is still pending, and its attempt counter is back at zero.
C31_Witness ==
    /\ flow_last.node = "coder" /\ flow_last.invoked
    /\ PlanStepsNow[flow_last.selected].execution_res = ""
    /\ step_attempts[PlanStepsNow[flow_last.selected].title] = 0
    /\ observations # <<>>
    /\ node = "research_team"

(***************************************************************************)
(* Claims about before_model of the adaptive summarization middleware,     *)
(* checked under SpecBeforeModel                                           *)
(***************************************************************************)
\* The messages of a list with the identifiers left out.
Contents(messages) ==
    [i \in DOMAIN messages |->
        [type |-> messages[i].type, content |-> messages[i].content,
         tool_calls |-> messages[i].tool_calls,
         tool_call_id |-> messages[i].tool_call_id,
         context_truncated |-> messages[i].context_truncated,
         name |-> messages[i].name]]

\* C32: when compression changed the list, the returned update is an explicit
\* full replacement (it begins with the remove-all sentinel) and applying it
\* leaves exactly the compressed list as the history; when compression changed
\* nothing, the middleware returns the update of the base pass untouched.
C32_FullReplacement ==
    summ_pc = "returned" =>
        IF summ_result.changed
        THEN /\ summ_update # None
             /\ Head(summ_update[1]) = RemoveAllSentinel
             /\ Contents(summ_after) = Contents(summ_result.messages)
        ELSE summ_update = summ_base

\* The base pass gave no update, compression dropped a message, and the dropped
\* message is still in the history after the returned update is applied.
C32_Witness ==
    /\ summ_pc = "returned"
    /\ summ_base = None
    /\ summ_result.changed
    /\ summ_update = Some(summ_result.messages)
    /\ Len(summ_after) > Len(summ_result.messages)

(***************************************************************************)
(* Claims about the latest human message, checked under SpecSumm           *)
(***************************************************************************)
IsSummaryMessage(msg) == msg.type = "human" /\ StartsWith(msg.content, SummaryPrefix)

\* out is the human message orig, whole or cut down to a leading part of it;
\* the identifier it was given on the way does not count
IsVersionOf(out, orig) ==
    /\ out.type = "human"
    /\ \/ Contents(<<out>>) = Contents(<<orig>>)
       \/ /\ out.context_truncated
          /\ \E n \in 1..Len(orig.content) :
                 StartsWith(out.content, SubSeq(orig.content, 1, n))

\* The latest human message of the input as the final fallback holds it.
FallbackHuman ==
    TruncateIfNeeded(
        TruncateIfNeeded(summ_messages[FindLastHumanIndex(summ_messages)],
                         MaxPreservableTokens(summ_max_tokens, summ_min_reserved)),
        Max(summ_min_reserved, summ_max_tokens \div 4))

\* C33: when the input holds a human message, the output holds the most recent
\* one, whole or truncated, as its last human message and after any summary
\* message (a summary message is a human message too, and may itself be the
\* most recent one of the input); the one exception is an output of the
\* summary alone, which occurs only when the summary with that message exceeds
\* the budget.
C33_LatestHumanKept ==
    (summ_pc = "returned" /\ FindLastHumanIndex(summ_messages) # 0) =>
        LET out == summ_result.messages
            last == FindLastHumanIndex(out)
            orig == summ_messages[FindLastHumanIndex(summ_messages)]
        IN  \/ /\ last # 0
               /\ IsVersionOf(out[last], orig)
               /\ \A j \in DOMAIN out \ {last} : IsSummaryMessage(out[j]) => j < last
            \/ /\ Len(out) = 1
               /\ IsSummaryMessage(out[1])
               /\ TokenCounter(out \o <<FallbackHuman>>) > summ_max_tokens

\* A compressed history whose latest human message was truncated and follows
\* the summary of what was dropped.
C33_Witness ==
    /\ summ_pc = "returned"
    /\ summ_result.changed
    /\ FindLastHumanIndex(summ_messages) # 0
    /\ Len(summ_result.messages) >= 2
    /\ IsSummaryMessage(summ_result.messages[1])
    /\ summ_result.messages[FindLastHumanIndex(summ_result.messages)].context_truncated

\* The final fallback dropped the latest human message: the summary stands alone.
C33_WitnessFallback ==
    /\ summ_pc = "returned"
    /\ FindLastHumanIndex(summ_messages) # 0
    /\ Len(summ_result.messages) = 1
    /\ IsSummaryMessage(summ_result.messages[1])

(***************************************************************************)
(* Claims about the cluster-dropping loop, checked under SpecRebalance     *)
(***************************************************************************)
NumPreserved(preserve_flags) ==
    Cardinality({i \in DOMAIN preserve_flags : preserve_flags[i]})

\* A cluster the loop may drop: complete, fully preserved, without the latest
\* human message.
Droppable(cluster) ==
    /\ cluster.missing = {}
    /\ FindLastHumanIndex(summ_messages) \notin Range(cluster.indices)
    /\ \A idx \in Range(cluster.indices) : reb_flags[idx]

\* C34: every iteration of the loop drops the oldest droppable cluster, leaves
\* strictly fewer messages preserved and preserves no message that was not
\* preserved before; so the loop runs at most once per message of the history.
C34_LoopTerminates ==
    /\ [][(summ_pc = "loop" /\ summ_pc' = "loop") =>
            LET clusters == CollectMessageClusters(reb_normalized)
            IN  /\ \E k \in DOMAIN clusters :
                       /\ reb_dropped' = clusters[k].indices
                       /\ Droppable(clusters[k])
                       /\ \A j \in 1..(k - 1) : ~Droppable(clusters[j])
                /\ NumPreserved(reb_flags') < NumPreserved(reb_flags)
                /\ \A i \in DOMAIN reb_flags : reb_flags'[i] => reb_flags[i]]_vars
    /\ [](reb_iterations <= Len(summ_messages))

\* The loop ran twice, and the call returned what the recursive definition of
\* the loop computes.
C34_Witness ==
    /\ summ_pc = "returned"
    /\ reb_iterations >= 2
    /\ reb_dropped # <<>>
    /\ summ_result = EnforceBudget(summ_messages, summ_max_tokens, summ_min_reserved,
                                   summ_summaries)

(***************************************************************************)
(* Claims about the task tool, checked under SpecTask                      *)
(***************************************************************************)
\* C35: a task call with a registered type invokes the sub-agent with the one
\* user message holding the description, and returns an update with every key
\* of the sub-agent's result except todos and messages and with exactly one
\* tool message carrying the sub-agent's last content and the caller's
\* tool_call_id, so that the parent keeps its todos and its earlier messages;
\* a call with an unregistered type returns a text naming every registered
\* agent, invokes nothing and changes no state; all of this for the
\* synchronous and for the asynchronous tool alike.
C35_TaskDelegation ==
    /\ [](task_last.called =>
            LET outcome == task_last.outcome
            IN  IF task_last.subagent_type \in Range(TaskAgents)
                THEN LET result == task_last.result[1]
                         update == outcome.update[1]
                     IN  /\ outcome.kind = "command"
                         /\ outcome.invoked_with[1]["messages"]
                                = <<UserMessage(task_last.description)>>
                         /\ DOMAIN update
                                = (DOMAIN result \ {"todos", "messages"}) \cup {"messages"}
                         /\ \A k \in DOMAIN update \ {"messages"} : update[k] = result[k]
                         /\ Len(update["messages"]) = 1
                         /\ update["messages"][1].type = "tool"
                         /\ update["messages"][1].content
                                = result["messages"][Len(result["messages"])].content
                         /\ update["messages"][1].tool_call_id = task_last.tool_call_id
                         /\ task_state["todos"] = task_pre["todos"]
                         /\ SubSeq(task_state["messages"], 1, Len(task_pre["messages"]))
                                = task_pre["messages"]
                         /\ Len(task_state["messages"]) = Len(task_pre["messages"]) + 1
                ELSE /\ outcome.kind = "text"
                     /\ \A i \in DOMAIN TaskAgents : Contains(outcome.text, TaskAgents[i])
                     /\ outcome.invoked_with = None
                     /\ outcome.update = None)
    /\ [][\A c \in Callers, description \in Descriptions, tool_call_id \in TaskToolCallIds :
              \A subagent_type \in SubagentTypes \ Range(TaskAgents) :
                  Task(c, description, subagent_type, tool_call_id)
                      => UNCHANGED <<task_state, task_injected, task_call>>]_vars

\* Two delegations of one turn: the sub-agent asked to find sources was
\* invoked with the description of the other call, which had replaced the
\* messages of the shared dictionary in between.
C35_Witness ==
    /\ task_last.called
    /\ task_last.subagent_type = "general-purpose"
    /\ task_last.description = "find sources"
    /\ task_last.outcome.invoked_with # None
    /\ task_last.outcome.invoked_with[1]["messages"] = <<UserMessage("check claims")>>
    /\ task_calls = 2

\* A call with an unregistered type: the error text.
C35_WitnessUnknown ==
    /\ task_calls = 1
    /\ task_last.called
    /\ task_last.subagent_type = "planner"
    /\ task_last.outcome.text =
           "Error: invoked agent of type planner, the only allowed types are ['"
           \o Backtick \o "general-purpose`', '" \o Backtick \o "critic`']"

(***************************************************************************)
(* Claims about the chunk cursor and the staging area, checked under       *)
(* SpecChat                                                                *)
(***************************************************************************)
ChunkKey(index) == "chunk_" \o ToString(index)

\* No call is between the put of its cursor and the put of its chunk.
NoPutPending == \A c \in Callers : call[c].pc # "put_chunk"

\* C36: for every thread, the k-th accepted call's chunk is staged under index
\* k-1, the cursor holds the index of the last staged chunk, nothing else is
\* staged, and no call changes a chunk that is staged.
C36_MonotonicCursor ==
    /\ [](NoPutPending =>
          \A t \in ThreadIds :
            LET n == Len(accepted[t])
            IN  /\ \A k \in 1..n :
                       StoreGet(store[t], ChunkKey(k - 1))
                           = Some(ChunkItem(k - 1, accepted[t][k]))
                /\ n > 0 => /\ StoreGet(store[t], "cursor") = Some(CursorItem(n - 1))
                            /\ store[t][Len(store[t])].key = ChunkKey(n - 1)
                /\ Len(store[t]) = IF n = 0 THEN 0 ELSE n + 1)
    /\ [][\A t \in ThreadIds : \A i \in DOMAIN store[t] :
              ~store[t][i].is_dict =>
                  /\ i \in DOMAIN store'[t]
                  /\ store'[t][i] = store[t][i]]_vars

\* Three accepted chunks for t1, a terminal call among them: the cursor is at 2.
C36_Witness ==
    /\ NoCallInFlight
    /\ Len(accepted["t1"]) = 3
    /\ DbHas("t1")
    /\ StoreGet(store["t1"], "cursor") = Some(CursorItem(2))
    /\ StoreGet(store["t1"], ChunkKey(2)) = Some(ChunkItem(2, accepted["t1"][3]))

IsPrefix(short, long) ==
    Len(short) <= Len(long) /\ SubSeq(long, 1, Len(short)) = short

\* C37: no call removes a staged item or lowers a cursor, whatever its
\* finish_reason; and when a terminal call persists for a thread that already
\* has a record, the new record holds the messages of the old one followed by
\* the chunks accepted since.
C37_StagingKept ==
    /\ [][\A t \in ThreadIds :
              /\ Len(store'[t]) >= Len(store[t])
              /\ \A i \in DOMAIN store[t] :
                     /\ store'[t][i].key = store[t][i].key
                     /\ store'[t][i].index >= store[t][i].index]_vars
    /\ [][\A t \in ThreadIds :
              (last_call'.persisted /\ last_call'.thread_id = t /\ db' # db /\ DbHas(t)) =>
                  /\ IsPrefix(DbFirst(t).messages, DbFirst(t)'.messages)
                  /\ Len(DbFirst(t)'.messages) > Len(DbFirst(t).messages)
                  /\ DbFirst(t)'.messages = accepted'[t]]_vars

\* The record of t1 was written by two terminal calls and holds the chunk of
\* the first followed by the chunk of the second.
C37_Witness ==
    /\ NoCallInFlight
    /\ last_call = [thread_id |-> "t1", result |-> TRUE, persisted |-> TRUE]
    /\ Len(db) = 1
    /\ DbFirst("t1").ts = 2
    /\ DbFirst("t1").messages = <<"a", "b">>
    /\ Len(store["t1"]) = 3

(***************************************************************************)
(* Claim about the client cache under concurrent calls, checked under      *)
(* SpecLlmConcurrent                                                       *)
(***************************************************************************)
\* C38: with calls racing for the same type, a cache entry once assigned is
\* never assigned again, every caller of a type receives the same instance,
\* and a call that raises leaves the cache as it was.
C38_SingleAssignment ==
    /\ [][\A t \in LlmTypes :
              llm_cache[t] # None => llm_cache'[t] = llm_cache[t]]_vars
    /\ [](\A t \in LlmTypes : \A i, j \in DOMAIN llm_returned[t] :
              llm_returned[t][i] = llm_returned[t][j])
    /\ [][llm_raised' # llm_raised => llm_cache' = llm_cache]_vars

\* Two racing first calls for "basic" have both constructed a client and
\* returned different instances; the cache holds the second.
C38_Witness ==
    /\ NoLlmCallInFlight
    /\ llm_built["basic"] = 2
    /\ llm_returned["basic"] = <<1, 2>>
    /\ llm_cache["basic"] = Some(2)

(***************************************************************************)
(* Claim about the lifetime of virtual files, checked under SpecFs          *)
(***************************************************************************)
\* The step is a successful write_file or edit_file on the path of key.
SuccessfulChangeOf(key) ==
    /\ fs_last'.tool \in {"write_file", "edit_file"}
    /\ fs_last'.ok
    /\ ResolvePath(fs_last'.file_path).key = key

\* C39: over any sequence of ls, read_file, write_file and edit_file calls a
\* path present in the file map stays present, and its content changes only
\* in a step that is a successful write_file or edit_file on that path.
C39_NeverImplicitlyDeleted ==
    [][\A key \in FsKeys :
          files[key] # None =>
              /\ files'[key] # None
              /\ files'[key] # files[key] => SuccessfulChangeOf(key)]_vars

\* An edit_file call whose write to disk failed has returned an error, and the
\* file map holds the edited content while the disk holds the old one.
C39_Witness ==
    /\ fs_last.tool = "edit_file"
    /\ ~fs_last.ok
    /\ ~disk_writable
    /\ fs_change = NoChange
    /\ \E key \in FsKeys :
           /\ ResolvePath(fs_last.file_path).key = key
           /\ files[key] # None
           /\ disk[key] # None
           /\ files[key] # disk[key]

(***************************************************************************)
(* Claim about the two copies of the budget rules, checked under SpecBudget *)
(***************************************************************************)
\* C40: for every token limit and every requested budget, none included,
\* compute_summary_budget and _compute_summary_budget return the same budget,
\* and determine_messages_to_keep and _determine_messages_to_keep the same
\* count.
C40_SameBudgetRules ==
    csb_result # None =>
        /\ csb_result[1] = RegistryComputeSummaryBudget(csb_token_limit, csb_requested)
        /\ DetermineMessagesToKeep(csb_token_limit)
               = RegistryDetermineMessagesToKeep(csb_token_limit)

\* A window of 200000 tokens and no requested budget: 180000 from the
\* summarization module, 10000 from the registry's copy, 4 messages from both.
C40_Witness ==
    /\ csb_token_limit = 200000
    /\ csb_requested = None
    /\ csb_result = Some(180000)
    /\ RegistryComputeSummaryBudget(csb_token_limit, csb_requested) = 10000
    /\ DetermineMessagesToKeep(csb_token_limit) = 4
    /\ RegistryDetermineMessagesToKeep(csb_token_limit) = 4

====
